---- MODULE Spec2Model ----
(***************************************************************************)
(* A model of pi-tasks: the task form's save handlers (src/src/extension.ts)*)
(* over the beads adapter (src/src/backend/adapters/beads.ts), and the list *)
(* page (src/src/ui/pages/list.ts).                                        *)
(*                                                                         *)
(* Text is a sequence of one-character strings, so that trim, toLowerCase  *)
(* and includes are computed and not assumed.  An optional value is a      *)
(* tuple: <<>> is JavaScript's undefined (or null), <<x>> is the value x.  *)
(***************************************************************************)
EXTENDS Integers, Sequences, FiniteSets, TLC

VARIABLES
    \* ---- the form session (editTask / createTask in extension.ts)
    mode,          \* "edit" | "create" | "none": which form is open
    task,          \* editTask's closure variable `task` (the last-saved task)
    createdTask,   \* createTask's closure variable `createdTask` (<<>> is null)
    draft,         \* the form's draft
    bd,            \* the tracker's store: id -> record
    saveCalls,     \* the backend calls the latest onSave issued, in order
    saveResult,    \* how the latest onSave ended
    savedDraft,    \* the draft of the latest successful save, <<>> if none
    nSaves,        \* save attempts so far
    nEdits,        \* draft edits so far
    \* ---- the list session (showIssueList in ui/pages/list.ts)
    phase,                 \* "list": the list is shown; "closed": showIssueList returned; "none"
    config,                \* allowPriority, allowSearch
    displayIssues,         \* the in-memory copy of the tasks
    filterTerm,
    rememberedSelectedId,  \* optional
    searching,
    searchBuffer,
    items,                 \* the ids of the rows of the select list, in order
    selectedIndex,         \* the select list's selected row, 1-based; 0: no row
    pending,               \* the backend updates in flight (not awaited)
    updatesLeft,           \* backend updates the list session still issues
    failed,                \* the updates whose promise was rejected
    notifications,         \* ctx.ui.notify calls so far
    handoff,               \* what onWork / onReference received, in order
    lastIntent,            \* the intent of the latest input
    inputsLeft,            \* inputs the list session still handles
    descScroll,            \* the description preview's scroll offset
    lastWidth,             \* the width of the latest render
    descText,              \* the lines of the description preview's text
    \* ---- a helper called on its own
    call                   \* the helper's name, arguments and result; <<>> if none

formVars == <<mode, task, createdTask, draft, saveCalls, saveResult, savedDraft, nSaves, nEdits>>

listVars == <<phase, config, displayIssues, filterTerm, rememberedSelectedId, searching,
              searchBuffer, items, selectedIndex, pending, updatesLeft, failed, notifications,
              handoff, lastIntent, inputsLeft, descScroll, lastWidth, descText, call>>

paneVars == <<descScroll, lastWidth, descText>>

vars == <<formVars, bd, listVars>>

\* `let lastWidth = 80`
INITIAL_WIDTH == 80
\* the lines of the description preview
PANE_LINES == 7
\* the lines of a description the preview reads
MAX_DESC_LINES == 100

----------------------------------------------------------------------------
\* Bounds of the model.

\* longest title the user types
MaxTitleLen == 2
\* save attempts in one form session
MaxSaves == 3
\* draft edits in one form session
MaxEdits == 2
\* longest description the user types
MaxDescLen == 1
\* inputs one list session handles
MaxInputs == 4
\* longest search buffer the user types
MaxTermLen == 1
\* updates one list session issues
MaxUpdates == 2
\* inputs the list session of SpecSelection handles
MaxSelectionInputs == 6
\* inputs the list session of SpecIntents handles
MaxIntentInputs == 3
\* inputs the list session of SpecPane handles
MaxPaneInputs == 4
\* longest meta and summary text of a row description
MaxMetaLen == 2
\* longest title of a task whose row label is built
MaxRowTitleLen == 3
\* greatest priority number a task carries
MaxPriority == 5
\* longest title and longest description of a task that is serialized
MaxSerialTitleLen == 2
MaxSerialDescLen == 3
\* most elements of a JSON array bd prints
MaxJsonLen == 2
\* longest description truncateDescription is called with
MaxTruncLen == 4
\* most tasks the tracker lists
MaxSortLen == 3
\* longest status cycle a backend declares
MaxCycleLen == 3
\* longest text, greatest width and greatest line count wrapText is called with
MaxTextLen == 4
MaxWidth == 3
MaxLines == 3

----------------------------------------------------------------------------
\* Optional values and text.

None == <<>>
Some(x) == <<x>>
\* `o ?? d`
OrElse(o, d) == IF o = None THEN d ELSE o[1]

\* the white space String.prototype.trim removes
Whitespace == {" ", "\n", "\r", "\t"}

RECURSIVE trimStart(_)
trimStart(s) == IF s # <<>> /\ Head(s) \in Whitespace THEN trimStart(Tail(s)) ELSE s

RECURSIVE trimEnd(_)
trimEnd(s) == IF s # <<>> /\ s[Len(s)] \in Whitespace THEN trimEnd(SubSeq(s, 1, Len(s) - 1)) ELSE s

\* String.prototype.trim
trim(s) == trimEnd(trimStart(s))

RECURSIVE SeqsUpTo(_, _)
SeqsUpTo(A, n) ==
    IF n = 0 THEN {<<>>}
    ELSE LET shorter == SeqsUpTo(A, n - 1)
         IN shorter \cup {Append(s, c) : s \in shorter, c \in A}

----------------------------------------------------------------------------
\* Statuses, types and priorities.

OPEN == <<"o", "p", "e", "n">>
IN_PROGRESS == <<"i", "n", "_", "p", "r", "o", "g", "r", "e", "s", "s">>
BLOCKED == <<"b", "l", "o", "c", "k", "e", "d">>
DEFERRED == <<"d", "e", "f", "e", "r", "r", "e", "d">>
CLOSED == <<"c", "l", "o", "s", "e", "d">>

TaskStatus == {OPEN, IN_PROGRESS, BLOCKED, DEFERRED, CLOSED}

STATUS_CYCLE == <<OPEN, IN_PROGRESS, CLOSED>>
TASK_TYPES == <<"task", "feature", "bug", "chore", "epic">>

\* Array.prototype.indexOf, 1-based; 0 when absent
IndexOf(seq, x) ==
    IF \E i \in 1..Len(seq) : seq[i] = x
    THEN CHOOSE i \in 1..Len(seq) : seq[i] = x /\ \A j \in 1..(i - 1) : seq[j] # x
    ELSE 0

\* cycleStatus without the wrap: the last element stays
cycleStatus_noWrap(current, statusCycle) ==
    IF Len(statusCycle) = 0 THEN OPEN
    ELSE LET idx == IndexOf(statusCycle, current)
         IN IF idx = 0 THEN statusCycle[1]
            ELSE IF idx = Len(statusCycle) THEN statusCycle[idx] ELSE statusCycle[idx + 1]

cycleStatus(current, statusCycle) ==
    IF Len(statusCycle) = 0 THEN OPEN
    ELSE LET idx == IndexOf(statusCycle, current)
         IN IF idx = 0 THEN statusCycle[1]
            ELSE statusCycle[(idx % Len(statusCycle)) + 1]

\* current is optional; the result is a type name
cycleTaskType(current, taskTypes) ==
    IF Len(taskTypes) = 0 THEN "task"
    ELSE LET normalized == OrElse(current, taskTypes[1])
             idx == IndexOf(taskTypes, normalized)
         IN IF idx = 0 THEN taskTypes[1]
            ELSE taskTypes[(idx % Len(taskTypes)) + 1]

\* the digits parsePriorityKey accepts
PriorityKeys == 0..4

----------------------------------------------------------------------------
\* The tracker (the external `bd` process) and the beads adapter.

Digits == <<"0", "1", "2", "3", "4", "5", "6", "7", "8", "9">>
\* String(n) for a one-digit n
String(n) == Digits[n + 1]
\* what bd reads back from a --priority value
ParsePriority(str) == IndexOf(Digits, str) - 1

\* the id bd gives the next task it creates
NewId(store) == <<"n", String(Cardinality(DOMAIN store))>>

\* the value of a flag of a bd command line (pairs <<flag, value>>), optional
RECURSIVE Flag(_, _)
Flag(args, name) ==
    IF args = <<>> THEN None
    ELSE IF Head(args)[1] = name THEN Some(Head(args)[2])
    ELSE Flag(Tail(args), name)

\* `bd update <id> <flags>` on a record
BdUpdate(rec, args) ==
    [id |-> rec.id,
     title |-> OrElse(Flag(args, "--title"), rec.title),
     description |-> IF Flag(args, "--description") # None
                     THEN Flag(args, "--description") ELSE rec.description,
     status |-> OrElse(Flag(args, "--status"), rec.status),
     priority |-> IF Flag(args, "--priority") # None
                  THEN Some(ParsePriority(Flag(args, "--priority")[1])) ELSE rec.priority,
     issue_type |-> IF Flag(args, "--type") # None
                    THEN Flag(args, "--type") ELSE rec.issue_type]

\* `bd create <flags> --json`: the record bd stores and prints
BdCreate(store, args) ==
    [id |-> NewId(store),
     title |-> Flag(args, "--title")[1],
     description |-> Flag(args, "--description"),
     status |-> OPEN,
     priority |-> Some(ParsePriority(Flag(args, "--priority")[1])),
     issue_type |-> Flag(args, "--type")]

toTask(beadsIssue) ==
    [id |-> beadsIssue.id,
     title |-> beadsIssue.title,
     description |-> beadsIssue.description,
     status |-> beadsIssue.status,
     priority |-> beadsIssue.priority,
     taskType |-> beadsIssue.issue_type]

\* a TaskUpdate with no field set
EmptyUpdate == [title |-> None, description |-> None, status |-> None,
                priority |-> None, taskType |-> None]

fromTaskUpdateToBeadsArgs(update) ==
    (IF update.title # None THEN << <<"--title", trim(update.title[1])>> >> ELSE <<>>)
    \o (IF update.description # None THEN << <<"--description", update.description[1]>> >> ELSE <<>>)
    \o (IF update.status # None THEN << <<"--status", update.status[1]>> >> ELSE <<>>)
    \o (IF update.priority # None THEN << <<"--priority", String(update.priority[1])>> >> ELSE <<>>)
    \o (IF update.taskType # None
        THEN << <<"--type", IF update.taskType[1] = "" THEN "task" ELSE update.taskType[1]>> >>
        ELSE <<>>)

\* adapterUpdate that runs bd also for a patch that sets no field
adapterUpdate_alwaysRuns(store, id, update, ok) ==
    LET args == fromTaskUpdateToBeadsArgs(update)
    IN [store |-> IF ok /\ id \in DOMAIN store
                  THEN [store EXCEPT ![id] = BdUpdate(store[id], args)]
                  ELSE store,
        calls |-> << [op |-> "update", id |-> id, args |-> args] >>,
        threw |-> ~ok]

\* The adapter's update(id, update).  ok: whether bd exits with code 0.
\* The result: the store afterwards, the processes run, whether it threw.
adapterUpdate(store, id, update, ok) ==
    LET args == fromTaskUpdateToBeadsArgs(update)
    IN IF Len(args) = 0
       THEN [store |-> store, calls |-> <<>>, threw |-> FALSE]
       ELSE [store |-> IF ok /\ id \in DOMAIN store
                       THEN [store EXCEPT ![id] = BdUpdate(store[id], args)]
                       ELSE store,
             calls |-> << [op |-> "update", id |-> id, args |-> args] >>,
             threw |-> ~ok]

\* The adapter's create(input).  ok1: bd create succeeds; ok2: the follow-up
\* status update succeeds.
adapterCreate(store, input, ok1, ok2) ==
    LET title == trim(input.title)
        status == OrElse(input.status, OPEN)
        createArgs ==
            << <<"--title", title>> >>
            \o (IF input.description # None /\ Len(input.description[1]) > 0
                THEN << <<"--description", input.description[1]>> >> ELSE <<>>)
            \o << <<"--priority", String(OrElse(input.priority, 2))>>,
                  <<"--type", OrElse(input.taskType, "task")>> >>
        call1 == [op |-> "create", id |-> NewId(store), args |-> createArgs]
        rec == BdCreate(store, createArgs)
        store1 == (rec.id :> rec) @@ store
        created == toTask(rec)
        up == adapterUpdate(store1, created.id, [EmptyUpdate EXCEPT !.status = Some(status)], ok2)
        withStatus == IF status # OPEN THEN [created EXCEPT !.status = status] ELSE created
        result == [withStatus EXCEPT
                     !.title = title,
                     !.description = Some(OrElse(input.description, <<>>)),
                     !.priority = IF input.priority # None THEN input.priority ELSE @,
                     !.taskType = IF input.taskType # None THEN input.taskType ELSE @]
    IN IF ~ok1
       THEN [store |-> store, calls |-> <<call1>>, threw |-> TRUE, created |-> None]
       ELSE IF status # OPEN /\ up.threw
       THEN [store |-> up.store, calls |-> <<call1>> \o up.calls, threw |-> TRUE, created |-> None]
       ELSE IF status # OPEN
       THEN [store |-> up.store, calls |-> <<call1>> \o up.calls, threw |-> FALSE,
             created |-> Some(result)]
       ELSE [store |-> store1, calls |-> <<call1>>, threw |-> FALSE, created |-> Some(result)]

----------------------------------------------------------------------------
\* The save handlers of the form (extension.ts).

\* buildTaskUpdate comparing the titles as typed
buildTaskUpdate_untrimmed(previous, next) ==
    [title |-> IF next.title # previous.title THEN Some(trim(next.title)) ELSE None,
     description |-> IF next.description # OrElse(previous.description, <<>>)
                     THEN Some(next.description) ELSE None,
     status |-> IF next.status # previous.status THEN Some(next.status) ELSE None,
     priority |-> IF next.priority # previous.priority /\ next.priority # None
                  THEN next.priority ELSE None,
     taskType |-> IF next.taskType # previous.taskType
                  THEN Some(OrElse(next.taskType, "task")) ELSE None]

buildTaskUpdate(previous, next) ==
    LET nextTitle == trim(next.title)
    IN [title |-> IF nextTitle # trim(previous.title) THEN Some(nextTitle) ELSE None,
        description |-> IF next.description # OrElse(previous.description, <<>>)
                        THEN Some(next.description) ELSE None,
        status |-> IF next.status # previous.status THEN Some(next.status) ELSE None,
        priority |-> IF next.priority # previous.priority /\ next.priority # None
                     THEN next.priority ELSE None,
        taskType |-> IF next.taskType # previous.taskType
                     THEN Some(OrElse(next.taskType, "task")) ELSE None]

hasTaskUpdate(update) == update # EmptyUpdate

\* applyDraftToTask forgetting the status
applyDraftToTask_keepsStatus(t, d) ==
    [t EXCEPT !.title = trim(d.title),
              !.description = Some(d.description),
              !.priority = d.priority,
              !.taskType = d.taskType]

applyDraftToTask(t, d) ==
    [t EXCEPT !.title = trim(d.title),
              !.description = Some(d.description),
              !.status = d.status,
              !.priority = d.priority,
              !.taskType = d.taskType]

\* updateTask patching the form's placeholder id
updateTask_placeholderId(store, id, update, ok) ==
    adapterUpdate(store, <<"n", "e", "w">>, update, ok)

\* updateTask(id, update) of extension.ts
updateTask(store, id, update, ok) == adapterUpdate(store, id, update, ok)

\* the title createTask's onSave validates and sends, as typed
createTitle_untrimmed(d) == d.title

\* the title createTask's onSave validates and sends
createTitle(d) == trim(d.title)

----------------------------------------------------------------------------
\* No list session: the state of the list variables while a form is checked
\* on its own.
ListIdle ==
    /\ phase = "none"
    /\ config = [allowPriority |-> TRUE, allowSearch |-> TRUE, statusCycle |-> STATUS_CYCLE]
    /\ displayIssues = <<>>
    /\ filterTerm = <<>>
    /\ rememberedSelectedId = None
    /\ searching = FALSE
    /\ searchBuffer = <<>>
    /\ items = <<>>
    /\ selectedIndex = 0
    /\ pending = {}
    /\ updatesLeft = 0
    /\ failed = {}
    /\ notifications = <<>>
    /\ handoff = <<>>
    /\ lastIntent = "none"
    /\ inputsLeft = 0
    /\ descScroll = 0
    /\ lastWidth = INITIAL_WIDTH
    /\ descText = <<>>

\* No form session.
FormIdle ==
    /\ mode = "none"
    /\ task = None
    /\ createdTask = None
    /\ draft = None
    /\ saveCalls = <<>>
    /\ saveResult = "none"
    /\ savedDraft = None
    /\ nSaves = 0
    /\ nEdits = 0

----------------------------------------------------------------------------
\* The form session: showTaskForm under editTask or createTask.

\* the texts the user types
Titles == SeqsUpTo({" ", "a"}, MaxTitleLen)
Descriptions == SeqsUpTo({"d"}, MaxDescLen)

\* the task createTask hands to the form
NewTask == [id |-> <<"n", "e", "w">>, title |-> <<>>, description |-> Some(<<>>),
            status |-> OPEN, priority |-> Some(2), taskType |-> Some("task")]

EditId == <<"t", "1">>

\* the records the tracker may hold for the task that is edited
InitialIssues ==
    {[id |-> EditId, title |-> <<"a">>, description |-> Some(<<"d">>), status |-> OPEN,
      priority |-> Some(1), issue_type |-> Some("bug")],
     [id |-> EditId, title |-> <<"a">>, description |-> None, status |-> BLOCKED,
      priority |-> None, issue_type |-> None],
     [id |-> EditId, title |-> <<"a", " ">>, description |-> Some(<<>>), status |-> CLOSED,
      priority |-> Some(4), issue_type |-> Some("task")]}

\* the draft the form starts from
draftOf(t) ==
    [title |-> t.title, description |-> OrElse(t.description, <<>>), status |-> t.status,
     priority |-> t.priority, taskType |-> t.taskType]

FormInit ==
    /\ \/ /\ mode = "create"
          /\ bd = <<>>
          /\ task = NewTask
       \/ /\ mode = "edit"
          /\ \E rec \in InitialIssues :
                /\ bd = (rec.id :> rec)
                /\ task = toTask(rec)
    /\ createdTask = None
    /\ draft = draftOf(task)
    /\ saveCalls = <<>>
    /\ saveResult = "none"
    /\ savedDraft = None
    /\ nSaves = 0
    /\ nEdits = 0
    /\ ListIdle
    /\ call = None

Edited(d) ==
    /\ mode \in {"edit", "create"}
    /\ nEdits < MaxEdits
    /\ draft' = d
    /\ nEdits' = nEdits + 1
    /\ UNCHANGED <<mode, task, createdTask, bd, saveCalls, saveResult, savedDraft, nSaves, listVars>>

FormSetTitle == \E t \in Titles : Edited([draft EXCEPT !.title = t])

FormSetDescription == \E d \in Descriptions : Edited([draft EXCEPT !.description = d])

FormCycleStatus == Edited([draft EXCEPT !.status = cycleStatus(draft.status, STATUS_CYCLE)])

FormSetPriority == \E p \in PriorityKeys : Edited([draft EXCEPT !.priority = Some(p)])

FormCycleTaskType ==
    Edited([draft EXCEPT !.taskType = Some(cycleTaskType(draft.taskType, TASK_TYPES))])

\* what onSave leaves behind
Saved(t, c, store, calls, result) ==
    /\ task' = t
    /\ createdTask' = c
    /\ bd' = store
    /\ saveCalls' = calls
    /\ saveResult' = result
    /\ savedDraft' = IF result = "saved" THEN Some(draft) ELSE savedDraft
    /\ nSaves' = nSaves + 1
    /\ UNCHANGED <<mode, draft, nEdits, listVars>>

\* editTask's onSave
EditOnSave ==
    /\ mode = "edit"
    /\ nSaves < MaxSaves
    /\ LET update == buildTaskUpdate(task, draft)
       IN IF ~hasTaskUpdate(update)
          THEN Saved(task, createdTask, bd, <<>>, "noop")
          ELSE \E ok \in BOOLEAN :
                 LET r == updateTask(bd, task.id, update, ok)
                 IN IF r.threw
                    THEN Saved(task, createdTask, r.store, r.calls, "failed")
                    ELSE Saved(applyDraftToTask(task, draft), createdTask, r.store, r.calls, "saved")

\* createTask's onSave
CreateOnSave ==
    /\ mode = "create"
    /\ nSaves < MaxSaves
    /\ LET title == createTitle(draft)
       IN IF Len(title) = 0
          THEN Saved(task, createdTask, bd, <<>>, "title_required")
          ELSE IF createdTask = None
          THEN \E ok1, ok2 \in BOOLEAN :
                 LET r == adapterCreate(bd, [title |-> title,
                                             description |-> Some(draft.description),
                                             status |-> Some(draft.status),
                                             priority |-> draft.priority,
                                             taskType |-> draft.taskType], ok1, ok2)
                 IN IF r.threw
                    THEN Saved(task, createdTask, r.store, r.calls, "failed")
                    ELSE Saved(task, r.created, r.store, r.calls, "saved")
          ELSE LET next == [draft EXCEPT !.title = title]
                   update == buildTaskUpdate(createdTask[1], next)
               IN IF ~hasTaskUpdate(update)
                  THEN Saved(task, createdTask, bd, <<>>, "noop")
                  ELSE \E ok \in BOOLEAN :
                         LET r == updateTask(bd, createdTask[1].id, update, ok)
                         IN IF r.threw
                            THEN Saved(task, createdTask, r.store, r.calls, "failed")
                            ELSE Saved(task, Some(applyDraftToTask(createdTask[1], next)),
                                       r.store, r.calls, "saved")

\* the form returns
FormExit ==
    /\ mode \in {"edit", "create"}
    /\ mode' = "none"
    /\ UNCHANGED <<task, createdTask, draft, bd, saveCalls, saveResult, savedDraft, nSaves, nEdits, listVars>>

FormNext ==
    \/ FormSetTitle
    \/ FormSetDescription
    \/ FormCycleStatus
    \/ FormSetPriority
    \/ FormCycleTaskType
    \/ EditOnSave
    \/ CreateOnSave
    \/ FormExit

SpecForm == FormInit /\ [][FormNext]_vars

----------------------------------------------------------------------------
\* The list page (ui/pages/list.ts): filtering.

Lower(c) ==
    CASE c = "A" -> "a"
      [] c = "B" -> "b"
      [] c = "N" -> "n"
      [] c = "Z" -> "z"
      [] OTHER -> c

RECURSIVE toLowerCase(_)
toLowerCase(s) == IF s = <<>> THEN <<>> ELSE <<Lower(Head(s))>> \o toLowerCase(Tail(s))

\* String.prototype.includes
includes(s, sub) == \E i \in 0..(Len(s) - Len(sub)) : SubSeq(s, i + 1, i + Len(sub)) = sub

matchesFilter(issue, term) ==
    LET lower == toLowerCase(term)
    IN \/ includes(toLowerCase(issue.title), lower)
       \/ includes(toLowerCase(OrElse(issue.description, <<>>)), lower)
       \/ includes(toLowerCase(issue.id), lower)
       \/ includes(toLowerCase(issue.status), lower)

\* Array.prototype.filter
RECURSIVE Filter(_, _)
Filter(issues, term) ==
    IF issues = <<>> THEN <<>>
    ELSE (IF matchesFilter(Head(issues), term) THEN <<Head(issues)>> ELSE <<>>)
         \o Filter(Tail(issues), term)

\* the tasks a filter term leaves visible
visibleIssues(issues, term) == IF term # <<>> THEN Filter(issues, term) ELSE issues

\* the ids of the rows getItems builds
getItems(issues, term) ==
    LET filtered == visibleIssues(issues, term)
    IN [k \in 1..Len(filtered) |-> filtered[k].id]

\* Array.prototype.find by id: the position of the task, 0 when absent
FindIssue(issues, id) ==
    IF \E k \in 1..Len(issues) : issues[k].id = id
    THEN CHOOSE k \in 1..Len(issues) : issues[k].id = id /\ \A j \in 1..(k - 1) : issues[j].id # id
    ELSE 0

----------------------------------------------------------------------------
\* The list page: the keys and the intents.

CTRL_Q == "ctrl+q"
CTRL_F == "ctrl+f"

\* the single printable characters among the keys
Printable == {"q", "w", "s", "e", " ", "0", "1", "2", "3", "4", "t", "n", "c", "a", "z"}

resolveListIntent(data, m) ==
    IF m.searching
    THEN CASE data = "enter" -> [type |-> "searchApply"]
           [] data \in {"escape", "ctrl+c"} -> [type |-> "searchCancel"]
           [] data = "backspace" -> [type |-> "searchBackspace"]
           [] data \in Printable -> [type |-> "searchAppend", value |-> data]
           [] OTHER -> [type |-> "delegate"]
    ELSE CASE data \in {"q", "escape", "ctrl+c"} -> [type |-> "cancel"]
           [] data = m.ctrlQ -> [type |-> "cancel"]
           [] data = m.ctrlF /\ m.allowSearch -> [type |-> "searchStart"]
           [] data \in {"w", "up"} -> [type |-> "moveSelection", delta |-> -1]
           [] data \in {"s", "down"} -> [type |-> "moveSelection", delta |-> 1]
           [] data = "e" -> [type |-> "edit"]
           [] data = "enter" -> [type |-> "work"]
           [] data = "tab" -> [type |-> "reference"]
           [] data = " " -> [type |-> "toggleStatus"]
           [] data \in {"0", "1", "2", "3", "4"} /\ m.allowPriority
                -> [type |-> "setPriority", priority |-> ParsePriority(data)]
           [] data = "t" -> [type |-> "toggleType"]
           [] data \in {"n", "c"} -> [type |-> "create"]
           [] data = "left" -> [type |-> "scrollDescription", delta |-> -1]
           [] data = "right" -> [type |-> "scrollDescription", delta |-> 1]
           [] OTHER -> [type |-> "delegate"]

\* the keys pressed while the list is shown, and while the search is entered
NavKeys == {"q", "escape", "ctrl+c", CTRL_Q, CTRL_F, "w", "up", "s", "down", "e", "enter",
            "tab", " ", "1", "3", "t", "n", "a", "pageDown", "left", "right"}
SearchKeys == {"enter", "escape", "backspace", "a", "z", " ", "pageDown", "up", "down"}

\* IntentOf that passes both mode flags as set
IntentOf_allowsAll(data) ==
    resolveListIntent(data, [searching |-> searching, filtered |-> filterTerm # <<>>,
                             allowSearch |-> TRUE, allowPriority |-> TRUE,
                             ctrlQ |-> CTRL_Q, ctrlF |-> CTRL_F])

\* the intent handleInput resolves for a key
IntentOf(data) ==
    resolveListIntent(data, [searching |-> searching, filtered |-> filterTerm # <<>>,
                             allowSearch |-> config.allowSearch,
                             allowPriority |-> config.allowPriority,
                             ctrlQ |-> CTRL_Q, ctrlF |-> CTRL_F])

\* the intents the next key can resolve to
Intents == {IntentOf(data) : data \in IF searching THEN SearchKeys ELSE NavKeys}

----------------------------------------------------------------------------
\* The list page: the select list.

\* selectList.getSelectedItem(): the id of the selected row, optional
getSelectedItem == IF selectedIndex = 0 THEN None ELSE Some(items[selectedIndex])

\* a new SelectList over rows: the first row is selected
FirstRow(rows) == IF rows = <<>> THEN 0 ELSE 1

\* a new SelectList over rows with the row of an optional id selected, if present
Restored(rows, id) ==
    IF id # None /\ IndexOf(rows, id[1]) # 0 THEN IndexOf(rows, id[1]) ELSE FirstRow(rows)

\* rebuildAndRender: the selected row of the rebuilt select list
rebuildAndRender(rows) == Restored(rows, getSelectedItem)

\* One pass of showIssueList's loop up to the list being shown: the filter
\* term, the notifications, the rows and the selected row.
ShowList(issues, term, remembered, notes) ==
    LET noMatch == Len(visibleIssues(issues, term)) = 0 /\ term # <<>>
        term1 == IF noMatch THEN <<>> ELSE term
        rows == getItems(issues, term1)
    IN [filterTerm |-> term1,
        notifications |-> IF noMatch
                          THEN Append(notes, [level |-> "warning", message |-> <<"No matches for", term>>])
                          ELSE notes,
        items |-> rows,
        selectedIndex |-> Restored(rows, remembered)]

----------------------------------------------------------------------------
\* The list page: the description preview.

\* the escape character
ESC == "ESC"

\* the characters [0-9;] of an escape sequence's parameters
AnsiParams == {"0", "1", "2", "3", "4", "5", "6", "7", "8", "9", ";"}

\* the position of the `m` that ends the escape sequence starting at s[1],
\* 0 when s does not start with a match of \x1b\[[0-9;]*m
RECURSIVE AnsiEnd(_, _)
AnsiEnd(s, j) ==
    IF j > Len(s) THEN 0
    ELSE IF s[j] = "m" THEN j
    ELSE IF s[j] \in AnsiParams THEN AnsiEnd(s, j + 1)
    ELSE 0

\* stripAnsi: str.replace(/\x1b\[[0-9;]*m/g, "")
RECURSIVE stripAnsi(_)
stripAnsi(str) ==
    IF str = <<>> THEN <<>>
    ELSE IF Len(str) >= 2 /\ str[1] = ESC /\ str[2] = "[" /\ AnsiEnd(str, 3) # 0
         THEN stripAnsi(SubSeq(str, AnsiEnd(str, 3) + 1, Len(str)))
         ELSE <<str[1]>> \o stripAnsi(Tail(str))

\* String.prototype.split(sep) for a separator of one character
RECURSIVE Split(_, _)
Split(str, sep) ==
    IF \E i \in 1..Len(str) : str[i] = sep
    THEN LET i == CHOOSE k \in 1..Len(str) : str[k] = sep /\ \A j \in 1..(k - 1) : str[j] # sep
         IN <<SubSeq(str, 1, i - 1)>> \o Split(SubSeq(str, i + 1, Len(str)), sep)
    ELSE <<str>>

\* String.prototype.slice(a, b) with 0 <= a
Slice(str, a, b) == SubSeq(str, a + 1, IF b < Len(str) THEN b ELSE Len(str))

Max(a, b) == IF a > b THEN a ELSE b

\* HardBreak that leaves a long word whole
HardBreak_whole(lines, remaining, safeWidth, maxLines) ==
    [lines |-> lines, remaining |-> remaining, full |-> Len(lines) >= maxLines]

\* wrapText's inner loop: a word longer than the width is cut into chunks.
\* The result is the lines, the rest of the word, and whether maxLines stopped it.
RECURSIVE HardBreak(_, _, _, _)
HardBreak(lines, remaining, safeWidth, maxLines) ==
    IF Len(stripAnsi(remaining)) > safeWidth
    THEN LET chunk == Slice(remaining, 0, safeWidth)
             lines1 == IF Len(lines) < maxLines THEN Append(lines, chunk) ELSE lines
         IN IF Len(lines1) >= maxLines
            THEN [lines |-> lines1, remaining |-> remaining, full |-> TRUE]
            ELSE HardBreak(lines1, Slice(remaining, safeWidth, Len(remaining)), safeWidth, maxLines)
    ELSE [lines |-> lines, remaining |-> remaining, full |-> Len(lines) >= maxLines]

\* wrapText's loop over the words: the lines and the current line after the
\* words, and whether a break left the loop
RECURSIVE WrapWords(_, _, _, _)
WrapWords(st, words, safeWidth, maxLines) ==
    IF words = <<>> \/ st.broke THEN st
    ELSE LET word == Head(words)
             candidate == IF st.currentLine # <<>> THEN st.currentLine \o <<" ">> \o word ELSE word
         IN IF Len(stripAnsi(candidate)) <= safeWidth
            THEN WrapWords([st EXCEPT !.currentLine = candidate], Tail(words), safeWidth, maxLines)
            ELSE LET flushed == IF st.currentLine # <<>> /\ Len(st.lines) < maxLines
                                THEN Append(st.lines, st.currentLine) ELSE st.lines
                 IN IF st.currentLine # <<>> /\ Len(flushed) >= maxLines
                    THEN [lines |-> flushed, currentLine |-> <<>>, broke |-> TRUE]
                    ELSE LET hb == HardBreak(flushed, word, safeWidth, maxLines)
                         IN IF hb.full
                            THEN [lines |-> hb.lines, currentLine |-> <<>>, broke |-> TRUE]
                            ELSE WrapWords([lines |-> hb.lines, currentLine |-> hb.remaining,
                                            broke |-> FALSE],
                                           Tail(words), safeWidth, maxLines)

wrapText(text, width, maxLines) ==
    IF Len(text) = 0 THEN << <<>> >>
    ELSE LET safeWidth == Max(1, width)
             st == WrapWords([lines |-> <<>>, currentLine |-> <<>>, broke |-> FALSE],
                             Split(text, " "), safeWidth, maxLines)
             lines == IF st.currentLine # <<>> /\ Len(st.lines) < maxLines
                      THEN Append(st.lines, st.currentLine) ELSE st.lines
         IN Slice(lines, 0, maxLines)

\* "(no description)"
NoDescription ==
    <<"(", "n", "o", " ", "d", "e", "s", "c", "r", "i", "p", "t", "i", "o", "n", ")">>

\* String.prototype.split(/\r?\n/)
SplitLines(str) ==
    LET parts == Split(str, "\n")
    IN [k \in 1..Len(parts) |->
          IF k < Len(parts) /\ parts[k] # <<>> /\ parts[k][Len(parts[k])] = "\r"
          THEN SubSeq(parts[k], 1, Len(parts[k]) - 1)
          ELSE parts[k]]

\* truncateDescription that cuts the lines and adds no "..."
truncateDescription_noEllipsis(desc, maxLines) ==
    IF desc = None \/ desc[1] = <<>> \/ trim(desc[1]) = <<>> THEN <<NoDescription>>
    ELSE Slice(SplitLines(desc[1]), 0, maxLines)

\* desc is optional
truncateDescription(desc, maxLines) ==
    IF desc = None \/ desc[1] = <<>> \/ trim(desc[1]) = <<>> THEN <<NoDescription>>
    ELSE LET allLines == SplitLines(desc[1])
             lines == Slice(allLines, 0, maxLines)
         IN IF Len(allLines) > maxLines THEN Append(lines, <<".", ".", ".">>) ELSE lines

\* while (lines.length < 7) lines.push("")
RECURSIVE PadLines(_)
PadLines(lines) == IF Len(lines) < PANE_LINES THEN PadLines(Append(lines, <<>>)) ELSE lines

\* buildDescText's loop over the lines of the description
RECURSIVE WrapLines(_, _, _)
WrapLines(wrappedLines, descLines, width) ==
    IF descLines = <<>> \/ Len(wrappedLines) >= PANE_LINES THEN wrappedLines
    ELSE WrapLines(wrappedLines \o wrapText(Head(descLines), width, PANE_LINES - Len(wrappedLines)),
                   Tail(descLines), width)

\* buildDescText without the padding
buildDescText_unpadded(descLines, width) == WrapLines(<<>>, descLines, width)

\* buildDescText: the lines that are joined by "\n"
buildDescText(descLines, width) == PadLines(WrapLines(<<>>, descLines, width))

\* scrollDescription: every wrapped line of the description
RECURSIVE allWrapped(_, _)
allWrapped(descLines, width) ==
    IF descLines = <<>> THEN <<>>
    ELSE wrapText(Head(descLines), width, MAX_DESC_LINES) \o allWrapped(Tail(descLines), width)

\* updateDescPreview that leaves the scroll offset alone
updateDescPreview_keepsScroll(selected, issues, scroll, width) ==
    IF selected = None \/ FindIssue(issues, selected[1]) = 0
    THEN [descScroll |-> scroll, descText |-> buildDescText(<<>>, width)]
    ELSE [descScroll |-> scroll,
          descText |-> buildDescText(
              truncateDescription(issues[FindIssue(issues, selected[1])].description,
                                  MAX_DESC_LINES), width)]

\* updateDescPreview for the optional selected row: the scroll offset and the
\* lines of the preview
updateDescPreview(selected, issues, scroll, width) ==
    IF selected = None THEN [descScroll |-> scroll, descText |-> buildDescText(<<>>, width)]
    ELSE IF FindIssue(issues, selected[1]) = 0
         THEN [descScroll |-> 0, descText |-> buildDescText(<<>>, width)]
         ELSE [descScroll |-> 0,
               descText |-> buildDescText(
                   truncateDescription(issues[FindIssue(issues, selected[1])].description,
                                       MAX_DESC_LINES), width)]

----------------------------------------------------------------------------
\* The list session: showIssueList.

Issue1 == [id |-> <<"t", "1">>, title |-> <<"b">>, description |-> Some(<<"d">>),
           status |-> OPEN, priority |-> Some(1), issue_type |-> Some("task")]
Issue2 == [id |-> <<"t", "2">>, title |-> <<"a">>, description |-> None,
           status |-> IN_PROGRESS, priority |-> None, issue_type |-> None]

\* the lists the tracker may return when the session starts
InitialLists == {<<Issue1, Issue2>>}

\* the flags showIssueList may be called with
Configs == {[allowPriority |-> TRUE, allowSearch |-> TRUE, statusCycle |-> STATUS_CYCLE],
            [allowPriority |-> FALSE, allowSearch |-> FALSE, statusCycle |-> STATUS_CYCLE]}

\* the titles of the tasks a create form saves
CreatedTitles == {<<"c">>}
\* the title an edit form saves
EditedTitle == <<"e">>

\* the optional id of the row at a position of the select list
ItemAt(rows, idx) == IF idx = 0 THEN None ELSE Some(rows[idx])

\* the preview of a new page component
NewPane(selected, issues) ==
    /\ descScroll' = 0
    /\ lastWidth' = INITIAL_WIDTH
    /\ descText' = updateDescPreview(selected, issues, 0, INITIAL_WIDTH).descText

\* updateDescPreview() with this row selected
PaneShows(selected, issues) ==
    /\ descScroll' = updateDescPreview(selected, issues, descScroll, lastWidth).descScroll
    /\ descText' = updateDescPreview(selected, issues, descScroll, lastWidth).descText
    /\ lastWidth' = lastWidth

\* showIssueList is called with one of the configs, one of the lists and one
\* of the filter terms (`config.filterTerm || ""`) and shows the list; it will
\* handle n inputs and issue u updates
ListStartsFiltered(n, u, configs, lists, terms) ==
    /\ FormIdle
    /\ config \in configs
    /\ \E issues \in lists, term \in terms :
         /\ bd = [id \in {issues[k].id : k \in 1..Len(issues)} |->
                    issues[FindIssue(issues, id)]]
         /\ displayIssues = issues
         /\ LET shown == ShowList(issues, term, None, <<>>)
            IN /\ filterTerm = shown.filterTerm
               /\ notifications = shown.notifications
               /\ items = shown.items
               /\ selectedIndex = shown.selectedIndex
               /\ descText = updateDescPreview(ItemAt(shown.items, shown.selectedIndex), issues,
                                               0, INITIAL_WIDTH).descText
    /\ phase = "list"
    /\ rememberedSelectedId = None
    /\ searching = FALSE
    /\ searchBuffer = <<>>
    /\ pending = {}
    /\ updatesLeft = u
    /\ failed = {}
    /\ handoff = <<>>
    /\ lastIntent = "none"
    /\ inputsLeft = n
    /\ descScroll = 0
    /\ lastWidth = INITIAL_WIDTH
    /\ call = None

\* showIssueList is called with no filter term
ListStartsWith(n, u, configs, lists) == ListStartsFiltered(n, u, configs, lists, {<<>>})

ListStarts(n) == ListStartsWith(n, MaxUpdates, Configs, InitialLists)

ListInit == ListStarts(MaxInputs)

\* handleInput is called with a key that resolves to an intent of this type
Handles(intent) ==
    /\ phase = "list"
    /\ inputsLeft > 0
    /\ intent \in Intents
    /\ lastIntent' = intent.type
    /\ inputsLeft' = inputsLeft - 1

\* the next pass of showIssueList's loop shows the list again
Reopened(issues, remembered) ==
    LET shown == ShowList(issues, filterTerm, remembered, notifications)
    IN /\ phase' = "list"
       /\ displayIssues' = issues
       /\ rememberedSelectedId' = remembered
       /\ filterTerm' = shown.filterTerm
       /\ notifications' = shown.notifications
       /\ items' = shown.items
       /\ selectedIndex' = shown.selectedIndex
       /\ searching' = FALSE
       /\ searchBuffer' = <<>>
       /\ NewPane(ItemAt(shown.items, shown.selectedIndex), issues)

\* the in-memory list after a toggle, and the list rebuilt
Toggled(issues) ==
    /\ displayIssues' = issues
    /\ items' = getItems(issues, filterTerm)
    /\ selectedIndex' = rebuildAndRender(getItems(issues, filterTerm))
    /\ PaneShows(ItemAt(getItems(issues, filterTerm),
                        rebuildAndRender(getItems(issues, filterTerm))), issues)

\* void config.onUpdateIssue(id, args): the update is in flight
onUpdateIssue(id, args) ==
    /\ updatesLeft > 0
    /\ pending' = pending \cup {[n |-> updatesLeft, id |-> id, args |-> args]}
    /\ updatesLeft' = updatesLeft - 1

HandleCancel ==
    /\ Handles([type |-> "cancel"])
    /\ phase' = "closed"
    /\ UNCHANGED <<formVars, call, paneVars, bd, config, displayIssues, filterTerm, rememberedSelectedId,
                   searching, searchBuffer, items, selectedIndex, pending, updatesLeft, failed,
                   notifications, handoff>>

HandleSearchStart ==
    /\ Handles([type |-> "searchStart"])
    /\ searching' = TRUE
    /\ searchBuffer' = <<>>
    /\ UNCHANGED <<formVars, call, paneVars, bd, phase, config, displayIssues, filterTerm, rememberedSelectedId,
                   items, selectedIndex, pending, updatesLeft, failed, notifications, handoff>>

\* searchCancel that also clears the filter term
HandleSearchCancel_clearsFilter ==
    /\ Handles([type |-> "searchCancel"])
    /\ searching' = FALSE
    /\ searchBuffer' = <<>>
    /\ filterTerm' = <<>>
    /\ items' = getItems(displayIssues, <<>>)
    /\ selectedIndex' = rebuildAndRender(getItems(displayIssues, <<>>))
    /\ PaneShows(ItemAt(getItems(displayIssues, <<>>),
                        rebuildAndRender(getItems(displayIssues, <<>>))), displayIssues)
    /\ UNCHANGED <<formVars, call, bd, phase, config, displayIssues, rememberedSelectedId,
                   pending, updatesLeft, failed, notifications, handoff>>

HandleSearchCancel ==
    /\ Handles([type |-> "searchCancel"])
    /\ searching' = FALSE
    /\ searchBuffer' = <<>>
    /\ UNCHANGED <<formVars, call, paneVars, bd, phase, config, displayIssues, filterTerm, rememberedSelectedId,
                   items, selectedIndex, pending, updatesLeft, failed, notifications, handoff>>

HandleSearchApply ==
    /\ Handles([type |-> "searchApply"])
    /\ filterTerm' = trim(searchBuffer)
    /\ searching' = FALSE
    /\ items' = getItems(displayIssues, trim(searchBuffer))
    /\ selectedIndex' = rebuildAndRender(getItems(displayIssues, trim(searchBuffer)))
    /\ PaneShows(ItemAt(getItems(displayIssues, trim(searchBuffer)),
                        rebuildAndRender(getItems(displayIssues, trim(searchBuffer)))),
                 displayIssues)
    /\ UNCHANGED <<formVars, call, bd, phase, config, displayIssues, rememberedSelectedId,
                   searchBuffer, pending, updatesLeft, failed, notifications, handoff>>

HandleSearchBackspace ==
    /\ Handles([type |-> "searchBackspace"])
    /\ searchBuffer' = SubSeq(searchBuffer, 1, Len(searchBuffer) - 1)
    /\ UNCHANGED <<formVars, call, paneVars, bd, phase, config, displayIssues, filterTerm, rememberedSelectedId,
                   searching, items, selectedIndex, pending, updatesLeft, failed, notifications,
                   handoff>>

HandleSearchAppend ==
    \E c \in Printable :
        /\ Handles([type |-> "searchAppend", value |-> c])
        /\ Len(searchBuffer) < MaxTermLen
        /\ searchBuffer' = Append(searchBuffer, c)
        /\ UNCHANGED <<formVars, call, paneVars, bd, phase, config, displayIssues, filterTerm,
                       rememberedSelectedId, searching, items, selectedIndex, pending, updatesLeft,
                       failed, notifications, handoff>>

HandleMoveSelection ==
    \E delta \in {-1, 1} :
        /\ Handles([type |-> "moveSelection", delta |-> delta])
        /\ IF Len(items) = 0
           THEN UNCHANGED <<selectedIndex, paneVars>>
           ELSE LET currentIndex == IF selectedIndex = 0 THEN 1 ELSE selectedIndex
                    nextIndex == (((currentIndex - 1) + delta + Len(items)) % Len(items)) + 1
                IN /\ selectedIndex' = nextIndex
                   /\ PaneShows(Some(items[nextIndex]), displayIssues)
        /\ UNCHANGED <<formVars, call, bd, phase, config, displayIssues, filterTerm,
                       rememberedSelectedId, searching, searchBuffer, items, pending, updatesLeft,
                       failed, notifications, handoff>>

\* HandedOff that calls the sink and leaves the list open
HandedOff_staysOpen(kind) ==
    /\ IF getSelectedItem = None
       THEN UNCHANGED <<rememberedSelectedId, handoff>>
       ELSE /\ rememberedSelectedId' = getSelectedItem
            /\ handoff' = Append(handoff,
                    [kind |-> kind,
                     issue |-> displayIssues[FindIssue(displayIssues, getSelectedItem[1])]])
    /\ UNCHANGED <<formVars, call, paneVars, bd, phase, config, displayIssues, filterTerm, searching,
                   searchBuffer, items, selectedIndex, pending, updatesLeft, failed, notifications>>

\* HandedOff that also marks the task handed off as in progress
HandedOff_marksInProgress(kind) ==
    /\ IF getSelectedItem = None
       THEN UNCHANGED <<phase, rememberedSelectedId, handoff, displayIssues, pending, updatesLeft>>
       ELSE LET k == FindIssue(displayIssues, getSelectedItem[1])
            IN /\ rememberedSelectedId' = getSelectedItem
               /\ phase' = "closed"
               /\ handoff' = Append(handoff, [kind |-> kind, issue |-> displayIssues[k]])
               /\ displayIssues' = [displayIssues EXCEPT ![k].status = IN_PROGRESS]
               /\ onUpdateIssue(displayIssues[k].id, << <<"--status", IN_PROGRESS>> >>)
    /\ UNCHANGED <<formVars, call, paneVars, bd, config, filterTerm, searching, searchBuffer,
                   items, selectedIndex, failed, notifications>>

\* work and reference: done("cancel"), then the sink receives the selected task
HandedOff(kind) ==
    /\ IF getSelectedItem = None
       THEN UNCHANGED <<phase, rememberedSelectedId, handoff>>
       ELSE /\ rememberedSelectedId' = getSelectedItem
            /\ phase' = "closed"
            /\ handoff' = Append(handoff,
                    [kind |-> kind,
                     issue |-> displayIssues[FindIssue(displayIssues, getSelectedItem[1])]])
    /\ UNCHANGED <<formVars, call, paneVars, bd, config, displayIssues, filterTerm, searching, searchBuffer,
                   items, selectedIndex, pending, updatesLeft, failed, notifications>>

HandleWork == Handles([type |-> "work"]) /\ HandedOff("work")

HandleReference == Handles([type |-> "reference"]) /\ HandedOff("reference")

\* ToggledField with the update issued for the first task of the list
ToggledField_firstTask(field, value, arg) ==
    LET k == FindIssue(displayIssues, getSelectedItem[1])
    IN /\ rememberedSelectedId' = getSelectedItem
       /\ Toggled([displayIssues EXCEPT ![k] = [@ EXCEPT ![field] = value]])
       /\ onUpdateIssue(displayIssues[1].id, arg)

\* a toggle of one field of the selected task
ToggledField(field, value, arg) ==
    LET k == FindIssue(displayIssues, getSelectedItem[1])
    IN /\ rememberedSelectedId' = getSelectedItem
       /\ Toggled([displayIssues EXCEPT ![k] = [@ EXCEPT ![field] = value]])
       /\ onUpdateIssue(displayIssues[k].id, arg)

HandleToggleStatus ==
    /\ Handles([type |-> "toggleStatus"])
    /\ IF getSelectedItem = None
       THEN UNCHANGED <<displayIssues, rememberedSelectedId, items, selectedIndex, pending,
                        updatesLeft, paneVars>>
       ELSE LET issue == displayIssues[FindIssue(displayIssues, getSelectedItem[1])]
                newStatus == cycleStatus(issue.status, config.statusCycle)
            IN ToggledField("status", newStatus, << <<"--status", newStatus>> >>)
    /\ UNCHANGED <<formVars, call, bd, phase, config, filterTerm, searching, searchBuffer, failed,
                   notifications, handoff>>

HandleSetPriority ==
    \E p \in PriorityKeys :
        /\ Handles([type |-> "setPriority", priority |-> p])
        /\ IF getSelectedItem = None
           THEN UNCHANGED <<displayIssues, rememberedSelectedId, items, selectedIndex, pending,
                        updatesLeft, paneVars>>
           ELSE LET issue == displayIssues[FindIssue(displayIssues, getSelectedItem[1])]
                IN IF issue.priority = Some(p)
                   THEN /\ rememberedSelectedId' = getSelectedItem
                        /\ UNCHANGED <<displayIssues, items, selectedIndex, pending, updatesLeft,
                                       paneVars>>
                   ELSE ToggledField("priority", Some(p), << <<"--priority", String(p)>> >>)
        /\ UNCHANGED <<formVars, call, bd, phase, config, filterTerm, searching, searchBuffer, failed,
                       notifications, handoff>>

HandleToggleType ==
    /\ Handles([type |-> "toggleType"])
    /\ IF getSelectedItem = None
       THEN UNCHANGED <<displayIssues, rememberedSelectedId, items, selectedIndex, pending,
                        updatesLeft, paneVars>>
       ELSE LET issue == displayIssues[FindIssue(displayIssues, getSelectedItem[1])]
                newType == cycleTaskType(issue.issue_type, TASK_TYPES)
            IN ToggledField("issue_type", Some(newType), << <<"--type", newType>> >>)
    /\ UNCHANGED <<formVars, call, bd, phase, config, filterTerm, searching, searchBuffer, failed,
                   notifications, handoff>>

\* ReplaceIssue that takes the edited task out and puts the updated one first
ReplaceIssue_first(issues, idx, updatedIssue) ==
    <<updatedIssue>> \o SubSeq(issues, 1, idx - 1) \o SubSeq(issues, idx + 1, Len(issues))

\* ReplaceIssue that takes the edited task out of the list
ReplaceIssue_removed(issues, idx, updatedIssue) ==
    SubSeq(issues, 1, idx - 1) \o SubSeq(issues, idx + 1, Len(issues))

\* displayIssues[idx] = editResult.updatedIssue
ReplaceIssue(issues, idx, updatedIssue) == [issues EXCEPT ![idx] = updatedIssue]

\* getIssueForEdit: a task of the list that has no description is read from
\* the tracker, any other is copied (a failing read ends the session before
\* the form is shown and is not followed here)
getIssueForEdit(id, fromList) ==
    IF fromList.description = None /\ id \in DOMAIN bd THEN bd[id] ELSE fromList

\* edit: done("select"), the edit form, then the task it returns replaces the
\* edited one.  saved: the form saved a new title; closeList: it was left by ctrl+q.
HandleEdit ==
    /\ Handles([type |-> "edit"])
    /\ IF getSelectedItem = None
       THEN UNCHANGED <<bd, phase, displayIssues, filterTerm, rememberedSelectedId, searching,
                        searchBuffer, items, selectedIndex, notifications, paneVars>>
       ELSE \E saved, closeList \in BOOLEAN :
              LET selectedId == getSelectedItem[1]
                  idx == FindIssue(displayIssues, selectedId)
                  currentIssue == displayIssues[idx]
                  issue == getIssueForEdit(selectedId, currentIssue)
                  updatedIssue == IF saved THEN [issue EXCEPT !.title = EditedTitle] ELSE issue
                  issues == ReplaceIssue(displayIssues, idx, updatedIssue)
              IN /\ bd' = IF saved /\ selectedId \in DOMAIN bd
                          THEN [bd EXCEPT ![selectedId] = BdUpdate(@, << <<"--title", EditedTitle>> >>)]
                          ELSE bd
                 /\ IF closeList
                    THEN /\ phase' = "closed"
                         /\ displayIssues' = issues
                         /\ rememberedSelectedId' = Some(selectedId)
                         /\ UNCHANGED <<filterTerm, searching, searchBuffer, items,
                                        selectedIndex, notifications, paneVars>>
                    ELSE Reopened(issues, Some(selectedId))
    /\ UNCHANGED <<formVars, call, config, pending, updatesLeft, failed, handoff>>

\* create: done("create"), the create form, then the task it returns, if any,
\* is put first and remembered
HandleCreate ==
    /\ Handles([type |-> "create"])
    /\ \/ /\ Reopened(displayIssues, rememberedSelectedId)
          /\ bd' = bd
       \/ \E t \in CreatedTitles :
            LET rec == BdCreate(bd, << <<"--title", t>>, <<"--priority", "2">>, <<"--type", "task">> >>)
            IN /\ bd' = (rec.id :> rec) @@ bd
               /\ Reopened(<<rec>> \o displayIssues, Some(rec.id))
    /\ UNCHANGED <<formVars, call, config, pending, updatesLeft, failed, handoff>>

\* delegate: selectList.handleInput(data).  The select list moves the
\* selection on up and down, wrapping at the ends, and calls
\* onSelectionChange; it has no binding for the other delegated keys.
HandleDelegate ==
    \E data \in (IF searching THEN SearchKeys ELSE NavKeys) :
        /\ IntentOf(data) = [type |-> "delegate"]
        /\ Handles(IntentOf(data))
        /\ IF data \in {"up", "down"} /\ Len(items) > 0
           THEN LET delta == IF data = "up" THEN -1 ELSE 1
                    nextIndex == (((selectedIndex - 1) + delta + Len(items)) % Len(items)) + 1
                IN /\ selectedIndex' = nextIndex
                   /\ rememberedSelectedId' = Some(items[nextIndex])
                   /\ PaneShows(Some(items[nextIndex]), displayIssues)
           ELSE UNCHANGED <<selectedIndex, rememberedSelectedId, paneVars>>
        /\ UNCHANGED <<formVars, call, bd, phase, config, displayIssues, filterTerm, searching,
                       searchBuffer, items, pending, updatesLeft, failed, notifications, handoff>>

\* scrollDescription: the window over the wrapped lines of the selected
\* task's description moves by one line
HandleScrollDescription ==
    \E delta \in {-1, 1} :
        /\ Handles([type |-> "scrollDescription", delta |-> delta])
        /\ IF getSelectedItem = None
           THEN UNCHANGED <<rememberedSelectedId, paneVars>>
           ELSE LET issue == displayIssues[FindIssue(displayIssues, getSelectedItem[1])]
                    wrapped == allWrapped(truncateDescription(issue.description, MAX_DESC_LINES),
                                          lastWidth)
                    maxScroll == Max(0, Len(wrapped) - PANE_LINES)
                    scroll == IF delta > 0 /\ descScroll < maxScroll THEN descScroll + 1
                              ELSE IF delta < 0 /\ descScroll > 0 THEN descScroll - 1
                              ELSE descScroll
                IN /\ rememberedSelectedId' = getSelectedItem
                   /\ descScroll' = scroll
                   /\ descText' = PadLines(Slice(wrapped, scroll, scroll + PANE_LINES))
                   /\ lastWidth' = lastWidth
        /\ UNCHANGED <<formVars, call, bd, phase, config, displayIssues, filterTerm, searching,
                       searchBuffer, items, selectedIndex, pending, updatesLeft, failed,
                       notifications, handoff>>

\* the widths the terminal takes
Widths == {1, MaxWidth, INITIAL_WIDTH}

\* render(w): the terminal renders the page at a width other than the last
Render ==
    \E w \in Widths :
        /\ phase = "list"
        /\ w # lastWidth
        /\ lastWidth' = w
        /\ UNCHANGED <<formVars, call, bd, phase, config, displayIssues, filterTerm,
                       rememberedSelectedId, searching, searchBuffer, items, selectedIndex,
                       pending, updatesLeft, failed, notifications, handoff, lastIntent,
                       inputsLeft, descScroll, descText>>

\* UpdateEnds with a failed update rolled back in the in-memory list
UpdateEnds_rollsBack ==
    \E u \in pending, ok \in BOOLEAN :
        /\ pending' = pending \ {u}
        /\ bd' = IF ok /\ u.id \in DOMAIN bd
                 THEN [bd EXCEPT ![u.id] = BdUpdate(@, u.args)]
                 ELSE bd
        /\ failed' = IF ok THEN failed ELSE failed \cup {u}
        /\ displayIssues' =
              IF ok \/ u.id \notin DOMAIN bd THEN displayIssues
              ELSE [k \in 1..Len(displayIssues) |->
                      IF displayIssues[k].id = u.id
                      THEN [displayIssues[k] EXCEPT !.status = bd[u.id].status,
                                                    !.priority = bd[u.id].priority,
                                                    !.issue_type = bd[u.id].issue_type]
                      ELSE displayIssues[k]]
        /\ UNCHANGED <<formVars, call, paneVars, phase, config, filterTerm, rememberedSelectedId,
                       searching, searchBuffer, items, selectedIndex, updatesLeft, notifications,
                       handoff, lastIntent, inputsLeft>>

\* an update in flight ends: bd exits with code 0, or the promise is rejected
\* with nothing awaiting it
UpdateEnds ==
    \E u \in pending, ok \in BOOLEAN :
        /\ pending' = pending \ {u}
        /\ bd' = IF ok /\ u.id \in DOMAIN bd
                 THEN [bd EXCEPT ![u.id] = BdUpdate(@, u.args)]
                 ELSE bd
        /\ failed' = IF ok THEN failed ELSE failed \cup {u}
        /\ UNCHANGED <<formVars, call, paneVars, phase, config, displayIssues, filterTerm, rememberedSelectedId,
                       searching, searchBuffer, items, selectedIndex, updatesLeft, notifications,
                       handoff, lastIntent, inputsLeft>>

\* The steps of a list session in a terminal of constant width whose user
\* does not scroll the preview; SpecPane follows the scrolling and the width.
ListNext ==
    \/ HandleCancel
    \/ HandleSearchStart
    \/ HandleSearchCancel
    \/ HandleSearchApply
    \/ HandleSearchBackspace
    \/ HandleSearchAppend
    \/ HandleMoveSelection
    \/ HandleWork
    \/ HandleReference
    \/ HandleToggleStatus
    \/ HandleSetPriority
    \/ HandleToggleType
    \/ HandleEdit
    \/ HandleCreate
    \/ HandleDelegate
    \/ UpdateEnds

SpecList == ListInit /\ [][ListNext]_vars

\* The list session with every intent handleInput resolves, the scrolling of
\* the preview among them, followed for fewer inputs: under each combination
\* of the flags with no filter term, and with the filter term "a" passed by
\* the caller under the configs of SpecList.
IntentConfigs ==
    {[allowPriority |-> p, allowSearch |-> s, statusCycle |-> STATUS_CYCLE] : p, s \in BOOLEAN}

IntentsInit ==
    \/ ListStartsFiltered(MaxIntentInputs, MaxUpdates, IntentConfigs, InitialLists, {<<>>})
    \/ ListStartsFiltered(MaxIntentInputs, MaxUpdates, Configs, InitialLists, {<<"a">>})

IntentsNext ==
    \/ ListNext
    \/ HandleScrollDescription

SpecIntents == IntentsInit /\ [][IntentsNext]_vars

\* The list session of a user who searches, moves the selection and toggles
\* the status, followed for more inputs.
SelectionInit == ListStarts(MaxSelectionInputs) /\ config.allowSearch

SelectionNext ==
    \/ HandleSearchStart
    \/ HandleSearchAppend
    \/ HandleSearchApply
    \/ HandleMoveSelection
    \/ HandleToggleStatus
    \/ UpdateEnds

SpecSelection == SelectionInit /\ [][SelectionNext]_vars

\* The list session of a user who reads descriptions: scrolls, moves the
\* selection and searches, in a terminal whose width changes.
LongWord == <<"a", "a", "a", "a", "a", "a", "a", "a", "a">>
ManyLines == <<"a", "\n", "b", "\r", "\n", "c", " ", "d", "\n", "e", "\n", "f", "\n", "g", "\n",
               "h", "\n", "i">>

PaneLists ==
    {<<[Issue1 EXCEPT !.description = d1], [Issue2 EXCEPT !.description = d2]>> :
        d1 \in {None, Some(LongWord), Some(ManyLines)}, d2 \in {None, Some(LongWord)}}

PaneInit ==
    ListStartsWith(MaxPaneInputs, 0,
                   {[allowPriority |-> TRUE, allowSearch |-> TRUE, statusCycle |-> STATUS_CYCLE]},
                   PaneLists)

PaneNext ==
    \/ HandleScrollDescription
    \/ Render
    \/ HandleMoveSelection
    \/ HandleSearchStart
    \/ HandleSearchAppend
    \/ HandleSearchApply
    \/ HandleDelegate

SpecPane == PaneInit /\ [][PaneNext]_vars

----------------------------------------------------------------------------
\* The list session of one task over a backend's status cycle: the status
\* toggled again and again, before any update ends.

\* the status cycles a backend declares: the statuses of a cycle are distinct
StatusCycles ==
    {c \in SeqsUpTo(TaskStatus, MaxCycleLen) :
        c # <<>> /\ \A i, j \in 1..Len(c) : c[i] = c[j] => i = j}

CycleConfigs ==
    {[allowPriority |-> TRUE, allowSearch |-> TRUE, statusCycle |-> c] : c \in StatusCycles}

CycleLists == {<<[Issue1 EXCEPT !.status = st]>> : st \in TaskStatus}

CycleInit == ListStartsWith(MaxCycleLen, MaxCycleLen, CycleConfigs, CycleLists)

CycleNext == HandleToggleStatus

SpecCycle == CycleInit /\ [][CycleNext]_vars

----------------------------------------------------------------------------
\* wrapText called on its own.

WrapChars == {"a", " ", ESC, "[", "m"}

WrapInit ==
    /\ FormIdle
    /\ ListIdle
    /\ bd = << >>
    /\ \E text \in SeqsUpTo(WrapChars, MaxTextLen), width \in 1..MaxWidth, maxLines \in 1..MaxLines :
          call = [fn |-> "wrapText", text |-> text, width |-> width, maxLines |-> maxLines,
                  result |-> None]

WrapReturns ==
    /\ call # None
    /\ call.fn = "wrapText"
    /\ call.result = None
    /\ call' = [call EXCEPT !.result = Some(wrapText(call.text, call.width, call.maxLines))]
    /\ UNCHANGED <<formVars, bd, phase, config, displayIssues, filterTerm, rememberedSelectedId,
                   searching, searchBuffer, items, selectedIndex, pending, updatesLeft, failed,
                   notifications, handoff, lastIntent, inputsLeft, paneVars>>

WrapNext == WrapReturns

SpecWrap == WrapInit /\ [][WrapNext]_vars

----------------------------------------------------------------------------
\* The description of a row: meta and summary in one string.

\* the separator character U+241F
DESCRIPTION_PART_SEPARATOR == "SEP"

\* encodeDescription(meta, summary?): `summary ? ... : meta`, the empty string
\* is falsy
encodeDescription(meta, summary) ==
    IF summary # None /\ summary[1] # <<>>
    THEN meta \o <<DESCRIPTION_PART_SEPARATOR>> \o summary[1]
    ELSE meta

\* decodeDescription(text): the first two parts of the split
decodeDescription(text) ==
    LET parts == Split(text, DESCRIPTION_PART_SEPARATOR)
    IN [meta |-> parts[1],
        summary |-> IF Len(parts) >= 2 THEN Some(parts[2]) ELSE None]

DescriptionChars == {"a", " ", DESCRIPTION_PART_SEPARATOR}

DescriptionInit ==
    /\ FormIdle
    /\ ListIdle
    /\ bd = << >>
    /\ \E meta \in SeqsUpTo(DescriptionChars, MaxMetaLen),
          summary \in {None} \cup {Some(t) : t \in SeqsUpTo(DescriptionChars, MaxMetaLen)} :
          call = [fn |-> "encodeDescription", meta |-> meta, summary |-> summary,
                  result |-> None]

EncodeReturns ==
    /\ call # None
    /\ call.fn = "encodeDescription"
    /\ call.result = None
    /\ call' = [call EXCEPT !.result = Some(encodeDescription(call.meta, call.summary))]
    /\ UNCHANGED <<formVars, bd, phase, config, displayIssues, filterTerm, rememberedSelectedId,
                   searching, searchBuffer, items, selectedIndex, pending, updatesLeft, failed,
                   notifications, handoff, lastIntent, inputsLeft, paneVars>>

\* the encoded text is decoded; the record keeps what the text was encoded from
DecodeReturns ==
    /\ call # None
    /\ call.fn = "encodeDescription"
    /\ call.result # None
    /\ call' = [fn |-> "decodeDescription", meta |-> call.meta, summary |-> call.summary,
                text |-> call.result[1], result |-> decodeDescription(call.result[1])]
    /\ UNCHANGED <<formVars, bd, phase, config, displayIssues, filterTerm, rememberedSelectedId,
                   searching, searchBuffer, items, selectedIndex, pending, updatesLeft, failed,
                   notifications, handoff, lastIntent, inputsLeft, paneVars>>

DescriptionNext ==
    \/ EncodeReturns
    \/ DecodeReturns

SpecDescription == DescriptionInit /\ [][DescriptionNext]_vars

----------------------------------------------------------------------------
\* The filter applied to one task: getItems over a list of one task.

\* formatIssueStatusLabel: the status as the list shows it
RECURSIVE formatIssueStatusLabel(_)
formatIssueStatusLabel(status) ==
    IF status = <<>> THEN <<>>
    ELSE <<IF Head(status) = "_" THEN " " ELSE Head(status)>> \o formatIssueStatusLabel(Tail(status))

FilterTerms == SeqsUpTo({"a", "N", "_", " "}, MaxTermLen)

FilterIssues ==
    {[id |-> <<"t", "1">>, title |-> t, description |-> d, status |-> s,
      priority |-> None, issue_type |-> None] :
        t \in {<<"a">>, <<"B", " ", "c">>}, d \in {None, Some(<<"A", "n">>)}, s \in TaskStatus}

FilterInit ==
    /\ FormIdle
    /\ bd = << >>
    /\ phase = "filter"
    /\ config = [allowPriority |-> TRUE, allowSearch |-> TRUE, statusCycle |-> STATUS_CYCLE]
    /\ \E issue \in FilterIssues : displayIssues = <<issue>>
    /\ filterTerm \in FilterTerms
    /\ rememberedSelectedId = None
    /\ searching = FALSE
    /\ searchBuffer = <<>>
    /\ items = <<>>
    /\ selectedIndex = 0
    /\ pending = {}
    /\ updatesLeft = 0
    /\ failed = {}
    /\ notifications = <<>>
    /\ handoff = <<>>
    /\ lastIntent = "none"
    /\ inputsLeft = 0
    /\ descScroll = 0
    /\ lastWidth = INITIAL_WIDTH
    /\ descText = <<>>
    /\ call = None

\* items = getItems(), and the select list over them
BuildItems ==
    /\ phase = "filter"
    /\ phase' = "filtered"
    /\ items' = getItems(displayIssues, filterTerm)
    /\ selectedIndex' = FirstRow(getItems(displayIssues, filterTerm))
    /\ UNCHANGED <<formVars, call, paneVars, bd, config, displayIssues, filterTerm, rememberedSelectedId,
                   searching, searchBuffer, pending, updatesLeft, failed, notifications, handoff,
                   lastIntent, inputsLeft>>

FilterNext == BuildItems

SpecFilter == FilterInit /\ [][FilterNext]_vars

----------------------------------------------------------------------------
\* The labels of the rows: getItems over the in-memory tasks.

\* \x1b[38;5;<n>m
Color256(n) == <<ESC, "[", "3", "8", ";", "5", ";">> \o n \o <<"m">>

PRIORITY_COLORS ==
    <<Color256(<<"1", "9", "6">>), Color256(<<"2", "0", "8">>), Color256(<<"3", "4">>),
      Color256(<<"3", "3">>), Color256(<<"2", "4", "5">>)>>

MUTED_TEXT == Color256(<<"2", "4", "5">>)
ANSI_RESET == <<ESC, "[", "0", "m">>

\* priority is optional
formatIssuePriority(priority) ==
    IF priority = None THEN <<"P", "?">>
    ELSE LET color == IF priority[1] + 1 \in DOMAIN PRIORITY_COLORS
                      THEN PRIORITY_COLORS[priority[1] + 1] ELSE <<>>
         IN color \o <<"P", String(priority[1])>> \o ANSI_RESET

stripIdPrefix(id) ==
    LET idx == IndexOf(id, "-")
    IN IF idx > 0 THEN SubSeq(id, idx + 1, Len(id)) ELSE id

buildIssueIdentityText(priority, idText) ==
    formatIssuePriority(priority) \o <<" ">> \o MUTED_TEXT \o idText \o ANSI_RESET

\* `${parts.identity} ${parts.title}`
baseLabel(issue) ==
    buildIssueIdentityText(issue.priority, stripIdPrefix(issue.id)) \o <<" ">> \o issue.title

\* " ".repeat(n)
Spaces(n) == [k \in 1..n |-> " "]

\* buildListRowModel that pads no label
buildListRowModel_unpadded(issue, maxLabelWidth) ==
    [id |-> issue.id, label |-> baseLabel(issue)]

\* buildListRowModel: the id and the label of the row; maxLabelWidth is optional
buildListRowModel(issue, maxLabelWidth) ==
    LET visibleWidth == Len(stripAnsi(baseLabel(issue)))
    IN [id |-> issue.id,
        label |-> IF maxLabelWidth # None /\ visibleWidth < maxLabelWidth[1]
                  THEN baseLabel(issue) \o Spaces(maxLabelWidth[1] - visibleWidth)
                  ELSE baseLabel(issue)]

\* Math.max over the visible label widths of all in-memory tasks; Math.max()
\* of no number is -Infinity, below every width
RECURSIVE getMaxLabelWidth(_)
getMaxLabelWidth(issues) ==
    IF issues = <<>> THEN -1
    ELSE Max(Len(stripAnsi(buildListRowModel(Head(issues), None).label)),
             getMaxLabelWidth(Tail(issues)))

\* getItems: the value and the label of every row
getItemRows(issues, term) ==
    LET filtered == visibleIssues(issues, term)
        maxLabelWidth == getMaxLabelWidth(issues)
    IN [k \in 1..Len(filtered) |->
          LET row == buildListRowModel(filtered[k], Some(maxLabelWidth))
          IN [value |-> row.id, label |-> row.label]]

RowChars == {"a", ESC, "[", "m"}

RowIssue(id, title, priority) ==
    [id |-> id, title |-> title, description |-> None, status |-> OPEN,
     priority |-> priority, issue_type |-> None]

RowPriorities == {None, Some(1), Some(7)}

\* no task, one task, or two tasks of which a filter by "b" hides the first
RowLists ==
    {<<>>}
    \cup {<<RowIssue(<<"x", "-", "1">>, t, p)>> :
            t \in SeqsUpTo(RowChars, MaxRowTitleLen), p \in RowPriorities}
    \cup {<<RowIssue(<<"x", "-", "1">>, t1, p1), RowIssue(<<"2">>, t2, None)>> :
            t1 \in SeqsUpTo(RowChars, MaxRowTitleLen), p1 \in RowPriorities,
            t2 \in {<<"b">>, <<"b", "b", "b", "b", "b">>}}

RowsInit ==
    /\ FormIdle
    /\ bd = << >>
    /\ phase = "rows"
    /\ config = [allowPriority |-> TRUE, allowSearch |-> TRUE, statusCycle |-> STATUS_CYCLE]
    /\ displayIssues \in RowLists
    /\ filterTerm \in {<<>>, <<"a">>, <<"b">>}
    /\ rememberedSelectedId = None
    /\ searching = FALSE
    /\ searchBuffer = <<>>
    /\ items = <<>>
    /\ selectedIndex = 0
    /\ pending = {}
    /\ updatesLeft = 0
    /\ failed = {}
    /\ notifications = <<>>
    /\ handoff = <<>>
    /\ lastIntent = "none"
    /\ inputsLeft = 0
    /\ descScroll = 0
    /\ lastWidth = INITIAL_WIDTH
    /\ descText = <<>>
    /\ call = None

\* items = getItems()
RowsBuilt ==
    /\ phase = "rows"
    /\ call = None
    /\ call' = [fn |-> "getItems", result |-> getItemRows(displayIssues, filterTerm)]
    /\ items' = getItems(displayIssues, filterTerm)
    /\ selectedIndex' = FirstRow(getItems(displayIssues, filterTerm))
    /\ UNCHANGED <<formVars, paneVars, bd, phase, config, displayIssues, filterTerm,
                   rememberedSelectedId, searching, searchBuffer, pending, updatesLeft, failed,
                   notifications, handoff, lastIntent, inputsLeft>>

RowsNext == RowsBuilt

SpecRows == RowsInit /\ [][RowsNext]_vars

----------------------------------------------------------------------------
\* The text parts of a row: buildIssueListTextParts called on its own.

\* the status symbols, one character each
STATUS_SYMBOLS ==
    [s \in TaskStatus |->
        CASE s = OPEN -> <<"circle">>
          [] s = IN_PROGRESS -> <<"half-circle">>
          [] s = BLOCKED -> <<"cross">>
          [] s = DEFERRED -> <<"pause">>
          [] s = CLOSED -> <<"check">>]

\* names of properties that an object literal inherits from Object.prototype
CONSTRUCTOR == <<"c", "o", "n", "s", "t", "r", "u", "c", "t", "o", "r">>
TO_STRING == <<"t", "o", "S", "t", "r", "i", "n", "g">>
ObjectPrototypeKeys == {CONSTRUCTOR, TO_STRING}

\* the text of an inherited function in a template literal
FunctionText(key) == <<"function ">> \o key \o <<"() { [native code] }">>

\* STATUS_SYMBOLS[status] ?? "?": the lookup finds own and inherited
\* properties, and ?? replaces only null and undefined
formatIssueStatusSymbol(status) ==
    IF status \in DOMAIN STATUS_SYMBOLS THEN STATUS_SYMBOLS[status]
    ELSE IF status \in ObjectPrototypeKeys THEN FunctionText(status)
    ELSE <<"?">>

\* String.prototype.padEnd(n)
padEnd(str, n) == IF Len(str) >= n THEN str ELSE str \o Spaces(n - Len(str))

\* (issueType || "issue").slice(0, 4).padEnd(4); issueType is optional
formatIssueTypeCode(issueType) ==
    LET type == IF issueType = None \/ issueType[1] = <<>>
                THEN <<"i", "s", "s", "u", "e">> ELSE issueType[1]
    IN padEnd(Slice(type, 0, 4), 4)

\* firstLine: the trimmed first line of an optional text, optional
firstLine(text) ==
    IF text = None \/ text[1] = <<>> THEN None
    ELSE LET line == trim(SplitLines(text[1])[1])
         IN IF Len(line) > 0 THEN Some(line) ELSE None

buildIssueListElements(issue) ==
    [id |-> stripIdPrefix(issue.id),
     title |-> issue.title,
     status |-> formatIssueStatusSymbol(issue.status),
     type |-> formatIssueTypeCode(issue.issue_type),
     summary |-> firstLine(issue.description)]

buildIssueListTextParts(issue) ==
    LET elements == buildIssueListElements(issue)
    IN [identity |-> buildIssueIdentityText(issue.priority, elements.id),
        title |-> elements.title,
        meta |-> elements.status \o <<" ">> \o elements.type,
        summary |-> elements.summary]

\* the statuses, priorities, types and descriptions a tracker reports
PartsStatuses == TaskStatus \cup ObjectPrototypeKeys \cup {<<>>, <<"n", "e", "w">>}
PartsPriorities == {None} \cup {Some(n) : n \in 0..MaxPriority}
PartsTypes == {None, Some(<<"b", "u", "g">>), Some(<<"f", "e", "a", "t", "u", "r", "e">>)}
PartsDescriptions == {None, Some(<<" ", "a", "\r", "\n", "b">>)}

PartsInit ==
    /\ FormIdle
    /\ ListIdle
    /\ bd = << >>
    /\ \E s \in PartsStatuses, p \in PartsPriorities, t \in PartsTypes, d \in PartsDescriptions :
          call = [fn |-> "buildIssueListTextParts",
                  issue |-> [id |-> <<"x", "-", "1">>, title |-> <<"a">>, description |-> d,
                             status |-> s, priority |-> p, issue_type |-> t],
                  result |-> None]

PartsReturns ==
    /\ call # None
    /\ call.fn = "buildIssueListTextParts"
    /\ call.result = None
    /\ call' = [call EXCEPT !.result = Some(buildIssueListTextParts(call.issue))]
    /\ UNCHANGED <<formVars, bd, phase, config, displayIssues, filterTerm, rememberedSelectedId,
                   searching, searchBuffer, items, selectedIndex, pending, updatesLeft, failed,
                   notifications, handoff, lastIntent, inputsLeft, paneVars>>

PartsNext == PartsReturns

SpecParts == PartsInit /\ [][PartsNext]_vars

----------------------------------------------------------------------------
\* The reference string of a task: serializeTask called on its own.  The
\* literals of the template are written as one element each.

\* Array.prototype.join(sep)
RECURSIVE Join(_, _)
Join(parts, sep) ==
    IF parts = <<>> THEN <<>>
    ELSE IF Len(parts) = 1 THEN parts[1]
    ELSE parts[1] \o sep \o Join(Tail(parts), sep)

\* description.replaceAll("\n", "\\n")
RECURSIVE EscapeNewlines(_)
EscapeNewlines(str) ==
    IF str = <<>> THEN <<>>
    ELSE (IF Head(str) = "\n" THEN <<"\\", "n">> ELSE <<Head(str)>>) \o EscapeNewlines(Tail(str))

\* the parts before the description
SerializedFields(tk) ==
    <<<<"id=">> \o tk.id,
      <<"title=\"">> \o tk.title \o <<"\"">>,
      <<"status=">> \o tk.status,
      <<"priority=">> \o (IF tk.priority = None THEN <<"unknown">>
                          ELSE <<String(tk.priority[1])>>),
      <<"type=">> \o (IF tk.taskType = None \/ tk.taskType[1] = <<>>
                      THEN <<"task">> ELSE tk.taskType[1])>>

\* serializeTask that appends every description that is present
serializeTask_anyDescription(tk) ==
    <<"task(">>
    \o Join(SerializedFields(tk)
            \o (IF tk.description # None
                THEN <<<<"description=\"">> \o EscapeNewlines(trim(tk.description[1])) \o <<"\"">>>>
                ELSE <<>>),
            <<", ">>)
    \o <<")">>

serializeTask(tk) ==
    LET description == IF tk.description = None THEN <<>> ELSE trim(tk.description[1])
    IN <<"task(">>
       \o Join(SerializedFields(tk)
               \o (IF description # <<>>
                   THEN <<<<"description=\"">> \o EscapeNewlines(description) \o <<"\"">>>>
                   ELSE <<>>),
               <<", ">>)
       \o <<")">>

PROJ_42 == <<"p", "r", "o", "j", "-", "4", "2">>
FIX_LOGIN == <<"F", "i", "x", " ", "l", "o", "g", "i", "n">>

SerialTitles == SeqsUpTo({"a", "\n"}, MaxSerialTitleLen) \cup {FIX_LOGIN}
SerialDescriptions ==
    {None} \cup {Some(d) : d \in SeqsUpTo({"a", " ", "\n", "\r"}, MaxSerialDescLen)}

SerializeInit ==
    /\ FormIdle
    /\ ListIdle
    /\ bd = << >>
    /\ \E title \in SerialTitles, description \in SerialDescriptions,
          priority \in {None, Some(1)}, taskType \in {None, Some(<<>>), Some(<<"b", "u", "g">>)} :
          call = [fn |-> "serializeTask",
                  task |-> [id |-> PROJ_42, title |-> title, description |-> description,
                            status |-> OPEN, priority |-> priority, taskType |-> taskType],
                  result |-> None]

SerializeReturns ==
    /\ call # None
    /\ call.fn = "serializeTask"
    /\ call.result = None
    /\ call' = [call EXCEPT !.result = Some(serializeTask(call.task))]
    /\ UNCHANGED <<formVars, bd, phase, config, displayIssues, filterTerm, rememberedSelectedId,
                   searching, searchBuffer, items, selectedIndex, pending, updatesLeft, failed,
                   notifications, handoff, lastIntent, inputsLeft, paneVars>>

SerializeNext == SerializeReturns

SpecSerialize == SerializeInit /\ [][SerializeNext]_vars

----------------------------------------------------------------------------
\* The adapter's reads (backend/adapters/beads.ts): what list, show and
\* create make of one run of bd.

\* a record bd prints
PrintedIssue ==
    [id |-> <<"t", "1">>, title |-> <<"a">>, description |-> None, status |-> OPEN,
     priority |-> Some(1), issue_type |-> Some("task")]

\* the elements of a printed array: an object, null, or a number other than 0
JsonElements == {[kind |-> "object", rec |-> PrintedIssue], [kind |-> "null"], [kind |-> "number"]}

\* what bd may print: text that is not JSON, null, a number, an object, an array
Stdouts ==
    {[kind |-> "invalid"], [kind |-> "null"], [kind |-> "number"],
     [kind |-> "object", rec |-> PrintedIssue]}
    \cup {[kind |-> "array", items |-> elements] : elements \in SeqsUpTo(JsonElements, MaxJsonLen)}

\* one run of bd: exit code, stdout and stderr
Runs == [code : {0, 1}, stdout : Stdouts, stderr : {<<>>, <<"b", "o", "o", "m">>}]

\* a value returned, an error thrown
Returns(value) == [threw |-> FALSE, message |-> <<>>, value |-> value]
Throws(message) == [threw |-> TRUE, message |-> message, value |-> None]

\* execBd: a run with a non-zero exit code throws its stderr, or names the
\* command when bd wrote nothing
execBd(run, args) ==
    IF run.code # 0
    THEN Throws(IF trim(run.stderr) # <<>> THEN trim(run.stderr)
                ELSE <<"bd ", args, " failed (code ", run.code, ")">>)
    ELSE Returns(run.stdout)

\* `Failed to parse bd output (${context}): ${msg}`
ParseError(context, msg) == <<"Failed to parse bd output (", context, "): ", msg>>

\* parseJsonArray without the Array.isArray test
parseJsonArray_unchecked(stdout, context) ==
    IF stdout.kind = "invalid" THEN Throws(ParseError(context, "SyntaxError"))
    ELSE IF stdout.kind = "array" THEN Returns(stdout.items)
    ELSE Returns(<<>>)

parseJsonArray(stdout, context) ==
    IF stdout.kind = "invalid" THEN Throws(ParseError(context, "SyntaxError"))
    ELSE IF stdout.kind # "array" THEN Throws(ParseError(context, "expected JSON array"))
    ELSE Returns(stdout.items)

parseJsonObject(stdout, context) ==
    IF stdout.kind = "invalid" THEN Throws(ParseError(context, "SyntaxError"))
    ELSE IF stdout.kind # "object" THEN Throws(ParseError(context, "expected JSON object"))
    ELSE Returns(stdout.rec)

\* toTask of a number: every field read from it is undefined
UndefinedTask ==
    [id |-> None, title |-> None, description |-> None, status |-> None, priority |-> None,
     taskType |-> None]

\* toTask of an element of a parsed array; reading a field of null throws
toTaskOf(element) ==
    IF element.kind = "null" THEN Throws(<<"TypeError">>)
    ELSE IF element.kind = "number" THEN Returns(UndefinedTask)
    ELSE Returns(toTask(element.rec))

\* beadsIssues.map(toTask)
RECURSIVE MapToTask(_)
MapToTask(elements) ==
    IF elements = <<>> THEN Returns(<<>>)
    ELSE LET first == toTaskOf(Head(elements))
             rest == MapToTask(Tail(elements))
         IN IF first.threw THEN first
            ELSE IF rest.threw THEN rest
            ELSE Returns(<<first.value>> \o rest.value)

\* list()
adapterList(run) ==
    LET out == execBd(run, "ready")
        parsed == parseJsonArray(out.value, <<"ready">>)
    IN IF out.threw THEN out
       ELSE IF parsed.threw THEN parsed
       ELSE MapToTask(parsed.value)

\* show(id)
adapterShow(id, run) ==
    LET out == execBd(run, <<"show", id>>)
        parsed == parseJsonArray(out.value, <<"show ", id>>)
    IN IF out.threw THEN out
       ELSE IF parsed.threw THEN parsed
       ELSE IF parsed.value = <<>> \/ parsed.value[1].kind = "null"
       THEN Throws(<<"Task not found: ", id>>)
       ELSE toTaskOf(parsed.value[1])

\* create(input) up to `const created = toTask(parseJsonObject(out, "create"))`
adapterCreateReads(run) ==
    LET out == execBd(run, "create")
        parsed == parseJsonObject(out.value, <<"create">>)
    IN IF out.threw THEN out
       ELSE IF parsed.threw THEN parsed
       ELSE Returns(toTask(parsed.value))

AdapterInit ==
    /\ FormIdle
    /\ ListIdle
    /\ bd = << >>
    /\ \E fn \in {"list", "show", "create"}, id \in {<<"t", "1">>, <<"x">>}, run \in Runs :
          call = [fn |-> fn, id |-> id, run |-> run, result |-> None]

AdapterReturns ==
    /\ call # None
    /\ call.fn \in {"list", "show", "create"}
    /\ call.result = None
    /\ call' = [call EXCEPT !.result =
                    Some(CASE call.fn = "list" -> adapterList(call.run)
                           [] call.fn = "show" -> adapterShow(call.id, call.run)
                           [] call.fn = "create" -> adapterCreateReads(call.run))]
    /\ UNCHANGED <<formVars, bd, phase, config, displayIssues, filterTerm, rememberedSelectedId,
                   searching, searchBuffer, items, selectedIndex, pending, updatesLeft, failed,
                   notifications, handoff, lastIntent, inputsLeft, paneVars>>

AdapterNext == AdapterReturns

SpecAdapter == AdapterInit /\ [][AdapterNext]_vars

----------------------------------------------------------------------------
\* Opening the task list (extension.ts): browseTasks.  `call` holds the
\* position in browseTasks, the status indicator, the runs of `bd ready` so
\* far, and what the list call and the list screen came to.

LOADING == "Loading..."

BrowseInit ==
    /\ FormIdle
    /\ ListIdle
    /\ bd = << >>
    /\ \E run \in Runs :
          call = [fn |-> "browseTasks", pc |-> "start", status |-> None, run |-> run,
                  listCalls |-> 0, listFailed |-> FALSE, shown |-> FALSE, tasks |-> <<>>,
                  error |-> <<>>]

Browsing(pc) == call # None /\ call.fn = "browseTasks" /\ call.pc = pc

BrowseUnchanged ==
    UNCHANGED <<formVars, bd, config, pending, updatesLeft, failed, handoff, lastIntent, inputsLeft>>

ListScreenUnchanged ==
    UNCHANGED <<phase, displayIssues, filterTerm, rememberedSelectedId, searching, searchBuffer,
                items, selectedIndex, notifications, paneVars>>

\* ctx.ui.setStatus("tasks", "Loading…")
BrowseLoads ==
    /\ Browsing("start")
    /\ call' = [call EXCEPT !.pc = "listing", !.status = Some(LOADING)]
    /\ ListScreenUnchanged
    /\ BrowseUnchanged

\* await listTasks(), then setStatus("tasks", undefined) unless it threw
BrowseLists ==
    /\ Browsing("listing")
    /\ LET listed == adapterList(call.run)
       IN call' = IF listed.threw
                  THEN [call EXCEPT !.pc = "caught", !.listCalls = @ + 1, !.listFailed = TRUE,
                                    !.error = listed.message]
                  ELSE [call EXCEPT !.pc = "showing", !.listCalls = @ + 1, !.status = None,
                                    !.tasks = listed.value]
    /\ ListScreenUnchanged
    /\ BrowseUnchanged

\* showTaskList: the list screen is shown
BrowseShows ==
    /\ Browsing("showing")
    /\ call' = [call EXCEPT !.pc = "shown", !.shown = TRUE]
    /\ Reopened(call.tasks, None)
    /\ BrowseUnchanged

\* showTaskList returns, or throws what a form's read of the tracker threw
BrowseListEnds ==
    /\ Browsing("shown")
    /\ phase' = "closed"
    /\ \/ call' = [call EXCEPT !.pc = "done"]
       \/ call' = [call EXCEPT !.pc = "caught", !.error = <<"Task not found: ", <<"x">>>>]
    /\ UNCHANGED <<displayIssues, filterTerm, rememberedSelectedId, searching, searchBuffer,
                   items, selectedIndex, notifications, paneVars>>
    /\ BrowseUnchanged

\* the catch block without setStatus("tasks", undefined)
BrowseCatches_keepsStatus ==
    /\ Browsing("caught")
    /\ call' = [call EXCEPT !.pc = "done"]
    /\ notifications' = Append(notifications, [level |-> "error", message |-> call.error])
    /\ UNCHANGED <<phase, displayIssues, filterTerm, rememberedSelectedId, searching,
                   searchBuffer, items, selectedIndex, paneVars>>
    /\ BrowseUnchanged

\* catch (e): setStatus("tasks", undefined), notify(e.message, "error")
BrowseCatches ==
    /\ Browsing("caught")
    /\ call' = [call EXCEPT !.pc = "done", !.status = None]
    /\ notifications' = Append(notifications, [level |-> "error", message |-> call.error])
    /\ UNCHANGED <<phase, displayIssues, filterTerm, rememberedSelectedId, searching,
                   searchBuffer, items, selectedIndex, paneVars>>
    /\ BrowseUnchanged

BrowseNext ==
    \/ BrowseLoads
    \/ BrowseLists
    \/ BrowseShows
    \/ BrowseListEnds
    \/ BrowseCatches

SpecBrowse == BrowseInit /\ [][BrowseNext]_vars

----------------------------------------------------------------------------
\* truncateDescription called on its own.

TruncateChars == {"a", " ", "\n", "\r"}

TruncateInit ==
    /\ FormIdle
    /\ ListIdle
    /\ bd = << >>
    /\ \E desc \in {None} \cup {Some(d) : d \in SeqsUpTo(TruncateChars, MaxTruncLen)},
          maxLines \in 0..MaxLines :
          call = [fn |-> "truncateDescription", desc |-> desc, maxLines |-> maxLines,
                  result |-> None]

TruncateReturns ==
    /\ call # None
    /\ call.fn = "truncateDescription"
    /\ call.result = None
    /\ call' = [call EXCEPT !.result = Some(truncateDescription(call.desc, call.maxLines))]
    /\ UNCHANGED <<formVars, bd, phase, config, displayIssues, filterTerm, rememberedSelectedId,
                   searching, searchBuffer, items, selectedIndex, pending, updatesLeft, failed,
                   notifications, handoff, lastIntent, inputsLeft, paneVars>>

TruncateNext == TruncateReturns

SpecTruncate == TruncateInit /\ [][TruncateNext]_vars

----------------------------------------------------------------------------
\* One save of editTask.onSave, called with any previous task and any draft
\* of the types buildTaskUpdate declares.

PatchTitles == {<<"a">>, <<"a", " ">>, <<"b">>}
PatchDescriptions == {<<>>, <<"d">>}
PatchStatuses == {OPEN, CLOSED}
PatchPriorities == {None, Some(1), Some(3)}
PatchTypes == {None, Some("bug"), Some("task")}

PatchDrafts ==
    [title : PatchTitles, description : PatchDescriptions, status : PatchStatuses,
     priority : PatchPriorities, taskType : PatchTypes]

PatchInit ==
    /\ FormIdle
    /\ ListIdle
    /\ \E rec \in InitialIssues, next \in PatchDrafts :
          /\ bd = (rec.id :> rec)
          /\ call = [fn |-> "onSave", previous |-> toTask(rec), next |-> next, result |-> None]

\* onSave: buildTaskUpdate, updateTask, applyDraftToTask
PatchSaves ==
    /\ call # None
    /\ call.fn = "onSave"
    /\ call.result = None
    /\ LET update == buildTaskUpdate(call.previous, call.next)
       IN IF ~hasTaskUpdate(update)
          THEN /\ bd' = bd
               /\ call' = [call EXCEPT !.result = Some([update |-> update, saved |-> FALSE,
                                                         task |-> call.previous])]
          ELSE \E ok \in BOOLEAN :
                 LET r == updateTask(bd, call.previous.id, update, ok)
                 IN /\ bd' = r.store
                    /\ call' = [call EXCEPT !.result =
                                   Some([update |-> update, saved |-> ~r.threw,
                                         task |-> IF r.threw THEN call.previous
                                                  ELSE applyDraftToTask(call.previous, call.next)])]
    /\ UNCHANGED <<formVars, phase, config, displayIssues, filterTerm, rememberedSelectedId,
                   searching, searchBuffer, items, selectedIndex, pending, updatesLeft, failed,
                   notifications, handoff, lastIntent, inputsLeft, paneVars>>

PatchNext == PatchSaves

SpecPatch == PatchInit /\ [][PatchNext]_vars

----------------------------------------------------------------------------
\* The adapter's update called on its own with any patch.

TaskUpdates ==
    [title : {None, Some(<<>>), Some(<<"a", " ">>)},
     description : {None, Some(<<>>), Some(<<"d">>)},
     status : {None, Some(OPEN), Some(CLOSED)},
     priority : {None, Some(0), Some(4)},
     taskType : {None, Some(""), Some("bug")}]

\* the record the tracker holds for the task that is updated
UpdatedRecord == CHOOSE rec \in InitialIssues : rec.priority = Some(1)

UpdateInit ==
    /\ FormIdle
    /\ ListIdle
    /\ bd = (EditId :> UpdatedRecord)
    /\ \E update \in TaskUpdates :
          call = [fn |-> "update", id |-> EditId, update |-> update, result |-> None]

UpdateRuns ==
    /\ call # None
    /\ call.fn = "update"
    /\ call.result = None
    /\ \E ok \in BOOLEAN :
          LET r == adapterUpdate(bd, call.id, call.update, ok)
          IN /\ bd' = r.store
             /\ call' = [call EXCEPT !.result = Some([calls |-> r.calls, threw |-> r.threw])]
    /\ UNCHANGED <<formVars, phase, config, displayIssues, filterTerm, rememberedSelectedId,
                   searching, searchBuffer, items, selectedIndex, pending, updatesLeft, failed,
                   notifications, handoff, lastIntent, inputsLeft, paneVars>>

UpdateNext == UpdateRuns

SpecUpdate == UpdateInit /\ [][UpdateNext]_vars

----------------------------------------------------------------------------
\* The order of the active tasks the adapter lists.

taskStatusSortRank(status) ==
    IF status = IN_PROGRESS THEN 0 ELSE IF status = OPEN THEN 1 ELSE 2

\* byTaskPriority with a missing priority counted as 0
byTaskPriority_undefinedAsZero(a, b) == OrElse(a.priority, 0) - OrElse(b.priority, 0)

\* a and b are tasks
byTaskPriority(a, b) ==
    IF a.priority = None /\ b.priority = None THEN 0
    ELSE IF a.priority = None THEN 1
    ELSE IF b.priority = None THEN -1
    ELSE a.priority[1] - b.priority[1]

\* the characters of the ids in the order of the collation
Collation == <<"1", "2", "a", "b">>

\* String.prototype.localeCompare on ids: -1, 0 or 1
RECURSIVE localeCompare(_, _)
localeCompare(a, b) ==
    IF a = <<>> /\ b = <<>> THEN 0
    ELSE IF a = <<>> THEN -1
    ELSE IF b = <<>> THEN 1
    ELSE IF Head(a) = Head(b) THEN localeCompare(Tail(a), Tail(b))
    ELSE IF IndexOf(Collation, Head(a)) < IndexOf(Collation, Head(b)) THEN -1 ELSE 1

\* the comparator of sortActiveTasks
compareActiveTasks(left, right) ==
    LET statusOrder == taskStatusSortRank(left.status) - taskStatusSortRank(right.status)
        priorityOrder == byTaskPriority(left, right)
    IN IF statusOrder # 0 THEN statusOrder
       ELSE IF priorityOrder # 0 THEN priorityOrder
       ELSE localeCompare(left.id, right.id)

\* Array.prototype.sort is stable: an element goes before the first element
\* that the comparator puts after it
InsertSorted(sorted, x) ==
    LET after == {k \in 1..Len(sorted) : compareActiveTasks(x, sorted[k]) < 0}
        at == IF after = {} THEN Len(sorted) + 1
              ELSE CHOOSE k \in after : \A j \in after : k <= j
    IN SubSeq(sorted, 1, at - 1) \o <<x>> \o SubSeq(sorted, at, Len(sorted))

RECURSIVE Sort(_, _)
Sort(sorted, rest) ==
    IF rest = <<>> THEN sorted ELSE Sort(InsertSorted(sorted, Head(rest)), Tail(rest))

\* sortActiveTasks: the array it was given, after the call, and the array it returns
sortActiveTasks(tasks) == [tasks |-> tasks, result |-> Sort(<<>>, tasks)]

\* the tasks the tracker lists
SortTasks ==
    [id : {<<"a">>, <<"b">>}, status : {IN_PROGRESS, OPEN, BLOCKED, CLOSED},
     priority : {None, Some(0), Some(3)}]

RECURSIVE SeqsOfLen(_, _)
SeqsOfLen(A, n) ==
    IF n = 0 THEN {<<>>} ELSE {Append(s, c) : s \in SeqsOfLen(A, n - 1), c \in A}

SortInit ==
    /\ FormIdle
    /\ ListIdle
    /\ bd = << >>
    /\ \E n \in 0..MaxSortLen : \E tasks \in SeqsOfLen(SortTasks, n) :
          call = [fn |-> "sortActiveTasks", tasks |-> tasks, result |-> None]

SortReturns ==
    /\ call # None
    /\ call.fn = "sortActiveTasks"
    /\ call.result = None
    /\ call' = [call EXCEPT !.result = Some(sortActiveTasks(call.tasks))]
    /\ UNCHANGED <<formVars, bd, phase, config, displayIssues, filterTerm, rememberedSelectedId,
                   searching, searchBuffer, items, selectedIndex, pending, updatesLeft, failed,
                   notifications, handoff, lastIntent, inputsLeft, paneVars>>

SortNext == SortReturns

SpecSort == SortInit /\ [][SortNext]_vars

----------------------------------------------------------------------------
\* Properties of the form session (checked under SpecForm).

\* a step of onSave
SaveStep == nSaves' = nSaves + 1

\* the task a save is diffed against: `task` in edit mode, `createdTask` in create mode
LastSaved == IF mode = "edit" THEN Some(task) ELSE createdTask

\* the draft, its title trimmed, equals the task in every field
SameAsTask(d, t) ==
    /\ trim(d.title) = t.title
    /\ d.description = OrElse(t.description, <<>>)
    /\ d.status = t.status
    /\ d.priority = t.priority
    /\ d.taskType = t.taskType

\* C1: a save of a draft that, its title trimmed, equals the last-saved task in
\* every field (an absent description counting as empty) builds an empty patch,
\* reports "no change" and issues no backend call.
C1_UnchangedDraftIsNoOp ==
    [][(SaveStep /\ LastSaved # None /\ SameAsTask(draft, LastSaved[1]))
        => /\ buildTaskUpdate(LastSaved[1], draft) = EmptyUpdate
           /\ saveResult' = "noop"
           /\ saveCalls' = <<>>
           /\ bd' = bd]_vars

\* an unchanged draft whose title carries surrounding blanks, diffed against a
\* task with no description, was saved as "no change"
C1_Witness ==
    /\ mode = "edit"
    /\ saveResult = "noop"
    /\ SameAsTask(draft, task)
    /\ draft.title # trim(draft.title)
    /\ task.description = None

\* C2: in edit and in create mode, once a save has succeeded, every save of the
\* identical draft issues no backend call and reports a no-op, however often
\* it is repeated.
C2_RepeatedSaveIsNoOp ==
    [][(SaveStep /\ savedDraft = Some(draft))
        => /\ saveResult' = "noop"
           /\ saveCalls' = <<>>
           /\ bd' = bd
           /\ task' = task
           /\ createdTask' = createdTask]_vars

\* a create session whose save succeeded and was then repeated twice
C2_Witness ==
    /\ mode = "create"
    /\ nSaves >= 3
    /\ saveResult = "noop"
    /\ savedDraft = Some(draft)
    /\ createdTask # None
    /\ createdTask[1].status # OPEN

\* the titles the calls of a save carry
TitlesSent(calls) ==
    {Flag(calls[i].args, "--title")[1] : i \in {j \in 1..Len(calls) : Flag(calls[j].args, "--title") # None}}

\* C3: in a create session a save whose title trims to the empty string fails
\* with "Title is required" before any backend call, before and after the task
\* was created; any other title is accepted, and the backend receives it trimmed.
C3_TitleRequired ==
    [][(SaveStep /\ mode = "create")
        => /\ trim(draft.title) = <<>>
                => /\ saveResult' = "title_required"
                   /\ saveCalls' = <<>>
                   /\ bd' = bd
                   /\ createdTask' = createdTask
           /\ trim(draft.title) # <<>>
                => /\ saveResult' # "title_required"
                   /\ TitlesSent(saveCalls') \subseteq {trim(draft.title)}
                   /\ (createdTask = None => TitlesSent(saveCalls') = {trim(draft.title)})]_vars

\* a task created from a title with surrounding blanks, whose next save, with a
\* blank title, was rejected
C3_Witness ==
    /\ mode = "create"
    /\ saveResult = "title_required"
    /\ createdTask # None
    /\ savedDraft # None
    /\ savedDraft[1].title # trim(savedDraft[1].title)
    /\ bd[createdTask[1].id].title = trim(savedDraft[1].title)

\* the calls of a save are all updates of the task with this id
OnlyUpdatesOf(calls, id) ==
    \A i \in 1..Len(calls) : calls[i].op = "update" /\ calls[i].id = id

\* what C4 says of a save in a create session, whichever draft is saved
CreateThenUpdate(valid) ==
    /\ (createdTask = None /\ saveResult' = "saved")
            => /\ saveCalls'[1].op = "create"
               /\ createdTask' # None
               /\ createdTask'[1].id = saveCalls'[1].id
    /\ createdTask # None
            => /\ OnlyUpdatesOf(saveCalls', createdTask[1].id)
               /\ createdTask' # None
               /\ createdTask'[1].id = createdTask[1].id
    /\ (createdTask # None /\ ~SameAsTask(draft, createdTask[1]) /\ valid)
            => /\ Len(saveCalls') = 1
               /\ saveCalls'[1].op = "update"
               /\ saveCalls'[1].id = createdTask[1].id

\* C4 (as stated): the first successful save of a create session calls create;
\* after it no create is called, and every later save of a changed draft calls
\* update with the id that create returned.
C4_Original ==
    [][(SaveStep /\ mode = "create") => CreateThenUpdate(TRUE)]_vars

\* C4 (amended): ... every later save of a changed draft whose title is not
\* blank calls update with the id that create returned.
C4_CreateThenUpdate ==
    [][(SaveStep /\ mode = "create") => CreateThenUpdate(trim(draft.title) # <<>>)]_vars

\* a created task that a later save of a changed draft has updated
C4_Witness ==
    /\ mode = "create"
    /\ createdTask # None
    /\ nSaves >= 2
    /\ saveResult = "saved"
    /\ Len(saveCalls) = 1
    /\ saveCalls[1].op = "update"
    /\ saveCalls[1].id = createdTask[1].id

----------------------------------------------------------------------------
\* Properties of the list session (checked under SpecList and SpecFilter).

\* handleInput handled an intent of this type in this step
Handled(type) == inputsLeft' = inputsLeft - 1 /\ lastIntent' = type

\* C5: applying a search term that matches no task to an unfiltered list
\* notifies the user and clears the filter, and the list is never displayed
\* with a non-empty filter term and zero rows.
C5_ZeroMatchesClearsFilter ==
    [][/\ (/\ Handled("searchApply")
           /\ filterTerm = <<>>
           /\ trim(searchBuffer) # <<>>
           /\ visibleIssues(displayIssues, trim(searchBuffer)) = <<>>)
          => (filterTerm' = <<>> /\ Len(notifications') = Len(notifications) + 1)
       /\ (phase' = "list" /\ filterTerm' # <<>>) => items' # <<>>]_vars

\* C6: a task passes the filter exactly when the lowercased term is a
\* substring of its lowercased title, description, id or status label (the
\* status with underscores replaced by spaces); an empty term shows the task.
C6_MatchesStatusLabel ==
    phase = "filtered" =>
        LET issue == displayIssues[1]
            lower == toLowerCase(filterTerm)
        IN (items = <<issue.id>>) <=>
              \/ filterTerm = <<>>
              \/ includes(toLowerCase(issue.title), lower)
              \/ includes(toLowerCase(OrElse(issue.description, <<>>)), lower)
              \/ includes(toLowerCase(issue.id), lower)
              \/ includes(toLowerCase(formatIssueStatusLabel(issue.status)), lower)

\* the step rebuilt the rows of the list that is shown
Rebuilt ==
    /\ phase' = "list"
    /\ \/ Handled("searchApply")
       \/ Handled("edit")
       \/ Handled("create")
       \/ pending' # pending /\ inputsLeft' = inputsLeft - 1

\* C7: the remembered selected id survives every rebuild of the list, and
\* after a rebuild the remembered task is the selected row if it is visible,
\* else the first row is.  Stated for the rebuilds before which the
\* remembered task was the selected row or was hidden by the filter, so that
\* it is the task the user selected last: selecting X, hiding X by a filter
\* and clearing the filter is such a sequence.
C7_RememberedSelectionRestored ==
    [][(/\ Rebuilt
        /\ rememberedSelectedId # None
        /\ \/ getSelectedItem = rememberedSelectedId
           \/ IndexOf(items, rememberedSelectedId[1]) = 0) =>
          /\ rememberedSelectedId' # None
          /\ selectedIndex' = Restored(items', rememberedSelectedId')]_vars

\* C8: with a filter active and the search not being entered, the cancel key
\* clears the filter, keeps the session open and displays the full list; the
\* cancel key ends the session only when no filter is active.
C8_CancelClearsFilter ==
    [][(Handled("cancel") /\ ~searching) =>
          IF filterTerm # <<>>
          THEN /\ phase' = "list"
               /\ filterTerm' = <<>>
               /\ items' = getItems(displayIssues, <<>>)
          ELSE phase' = "closed"]_vars

\* the position of the selected task in the in-memory list
SelectedIssueIndex == FindIssue(displayIssues, getSelectedItem[1])

\* all tasks but the k-th, and all fields of the k-th but one, are as they were
OnlyFieldChanged(k, field) ==
    /\ Len(displayIssues') = Len(displayIssues)
    /\ \A j \in 1..Len(displayIssues) : j # k => displayIssues'[j] = displayIssues[j]
    /\ \A f \in DOMAIN displayIssues[k] : f # field => displayIssues'[k][f] = displayIssues[k][f]
    /\ displayIssues'[k][field] # displayIssues[k][field]

\* exactly one update was issued, for this id and with this argument
OneUpdateIssued(id, flag, value) ==
    /\ Cardinality(pending' \ pending) = 1
    /\ pending \subseteq pending'
    /\ \A u \in pending' \ pending : u.id = id /\ u.args = << <<flag, value>> >>

\* C9: a status or type toggle changes exactly that field of exactly the
\* selected task in the in-memory list before any backend call completes,
\* issues exactly one update carrying the task's id and the new value, and
\* rebuilds the list.
C9_OptimisticToggle ==
    [][/\ (Handled("toggleStatus") /\ getSelectedItem # None) =>
             LET k == SelectedIssueIndex
             IN /\ OnlyFieldChanged(k, "status")
                /\ OneUpdateIssued(displayIssues[k].id, "--status", displayIssues'[k].status)
                /\ bd' = bd
                /\ items' = getItems(displayIssues', filterTerm)
                /\ phase' = "list"
       /\ (Handled("toggleType") /\ getSelectedItem # None) =>
             LET k == SelectedIssueIndex
             IN /\ OnlyFieldChanged(k, "issue_type")
                /\ OneUpdateIssued(displayIssues[k].id, "--type", displayIssues'[k].issue_type[1])
                /\ bd' = bd
                /\ items' = getItems(displayIssues', filterTerm)
                /\ phase' = "list"]_vars

\* the second task's status was toggled, its update is in flight and the
\* tracker still has the old status
C9_Witness ==
    /\ lastIntent = "toggleStatus"
    /\ \E u \in pending : u.id = Issue2.id /\ u.args = << <<"--status", CLOSED>> >>
    /\ displayIssues[FindIssue(displayIssues, Issue2.id)].status = CLOSED
    /\ bd[Issue2.id].status = IN_PROGRESS

\* C10: when the update issued by an optimistic toggle fails, the failure is
\* shown to the user as a notification carrying the tracker's error: there
\* is an error notification whenever an update has failed.
C10_FailedUpdateNotified ==
    \A u \in failed : \E k \in 1..Len(notifications) : notifications[k].level = "error"

\* C11: when the update of an optimistic toggle fails, the in-memory task
\* keeps the toggled value and the list session stays open.
C11_NoRollback ==
    [][(failed' # failed) =>
          /\ displayIssues' = displayIssues
          /\ items' = items
          /\ phase' = phase
          /\ bd' = bd]_vars

\* a status update failed, the session is open, and the in-memory status
\* differs from the tracker's
C11_Witness ==
    /\ phase = "list"
    /\ \E u \in failed :
          /\ u.args[1][1] = "--status"
          /\ u.id \in DOMAIN bd
          /\ displayIssues[FindIssue(displayIssues, u.id)].status = u.args[1][2]
          /\ bd[u.id].status # u.args[1][2]

\* C12: toggle updates are last-write-wins per field: once every update
\* issued has completed successfully, whatever the order of completion, the
\* tracker's status, priority and type of every task equal the in-memory
\* values, which are those of the last toggles issued.
C12_LastWriteWins ==
    (phase = "list" /\ pending = {} /\ failed = {}) =>
        \A k \in 1..Len(displayIssues) :
            LET issue == displayIssues[k]
            IN issue.id \in DOMAIN bd =>
                  /\ bd[issue.id].status = issue.status
                  /\ bd[issue.id].priority = issue.priority
                  /\ bd[issue.id].issue_type = issue.issue_type

\* C13: no input that issues an update for a task is handled while an
\* earlier update for the same task is still in flight.
C13_NoOverlappingUpdates ==
    [][\A u \in pending' \ pending : \A v \in pending : v.id # u.id]_vars

\* C14: cycleStatus returns the element after the current status in the
\* backend's status cycle, the first one after the last; a status outside the
\* cycle gives the first element; so after a toggle the status is in the
\* cycle, and k toggles on a cycle of length k bring a status of the cycle
\* back to itself.
C14_CycleStatus ==
    [][(Handled("toggleStatus") /\ getSelectedItem # None) =>
          LET cyc == config.statusCycle
              old == displayIssues[1].status
              new == displayIssues'[1].status
              first == bd[displayIssues[1].id].status
              i == IndexOf(cyc, old)
          IN /\ (i # 0 /\ i < Len(cyc)) => new = cyc[i + 1]
             /\ i = Len(cyc) => new = cyc[1]
             /\ i = 0 => new = cyc[1]
             /\ IndexOf(cyc, new) # 0
             /\ (Cardinality(pending') = Len(cyc) /\ IndexOf(cyc, first) # 0)
                   => new = first]_vars

\* three toggles over [open, in_progress, closed] brought closed back to
\* closed, by way of the wrap to open
C14_Witness ==
    /\ config.statusCycle = STATUS_CYCLE
    /\ Cardinality(pending) = 3
    /\ \E u \in pending : u.n = MaxCycleLen /\ u.args = << <<"--status", OPEN>> >>
    /\ displayIssues[1].status = CLOSED
    /\ bd[displayIssues[1].id].status = CLOSED

\* the lines put one after the other
RECURSIVE Flatten(_)
Flatten(lines) == IF lines = <<>> THEN <<>> ELSE Head(lines) \o Flatten(Tail(lines))

\* C18: for any text and any positive width and maxLines, wrapText returns
\* at most maxLines lines, each of escape-stripped length at most width; a
\* single word longer than the width is cut into chunks of exactly width
\* characters, the last of which may be shorter.
C18_WrapText ==
    (call # None /\ call.fn = "wrapText" /\ call.result # None) =>
        LET lines == call.result[1]
            text == call.text
        IN /\ Len(lines) <= call.maxLines
           /\ \A i \in 1..Len(lines) : Len(stripAnsi(lines[i])) <= call.width
           /\ ((\A i \in 1..Len(text) : text[i] # " ") /\ Len(stripAnsi(text)) > call.width) =>
                 /\ \A i \in 1..(Len(lines) - 1) : Len(lines[i]) = call.width
                 /\ Flatten(lines) = SubSeq(text, 1, Len(Flatten(lines)))
                 /\ Len(lines) < call.maxLines => Flatten(lines) = text
                 /\ Len(lines) >= 2 \/ call.maxLines = 1

\* a word of four characters was cut at width 3 into a chunk of three and a
\* last chunk of one
C18_Witness ==
    /\ call # None
    /\ call.fn = "wrapText"
    /\ call.text = <<"a", "a", "a", "a">>
    /\ call.width = 3
    /\ call.result = Some(<< <<"a", "a", "a">>, <<"a">> >>)

\* the selected task of the list session
SelectedIssue == displayIssues[FindIssue(displayIssues, getSelectedItem[1])]

\* the wrapped line count of the selected task's description at the current width
TotalWrappedLines ==
    Len(allWrapped(truncateDescription(SelectedIssue.description, MAX_DESC_LINES), lastWidth))

\* C15: in every state of a list session, also after the render width
\* changed between scroll inputs, the description scroll offset lies in
\* [0, max(0, totalWrappedLines - 7)] for the selected task's description at
\* the current width.
C15_ScrollInRange ==
    (phase = "list" /\ getSelectedItem # None) =>
        (0 <= descScroll /\ descScroll <= Max(0, TotalWrappedLines - PANE_LINES))

\* C16: the description preview always holds exactly 7 lines, as first
\* built and after scrolling.
C16_SevenLines == phase = "list" => Len(descText) = PANE_LINES

\* the preview was scrolled down by two lines and shows the last seven of
\* the nine wrapped lines of a description
C16_Witness ==
    /\ phase = "list"
    /\ lastIntent = "scrollDescription"
    /\ lastWidth = 1
    /\ descScroll = 2
    /\ descText = <<<<"a">>, <<"a">>, <<"a">>, <<"a">>, <<"a">>, <<"a">>, <<"a">>>>

\* C17: whenever the selected row changes, by a move, by a key delegated to
\* the select list or by a rebuild of the list, the description scroll
\* offset is 0 again.
C17_SelectionResetsScroll ==
    [][(phase' = "list" /\ getSelectedItem' # None /\ getSelectedItem' # getSelectedItem)
          => descScroll' = 0]_vars

\* the select list moved the selection on a delegated key while the search
\* was entered, and the preview shows the top of the other description
C17_Witness ==
    /\ phase = "list"
    /\ lastIntent = "delegate"
    /\ searching
    /\ lastWidth = 1
    /\ getSelectedItem = Some(Issue2.id)
    /\ rememberedSelectedId = Some(Issue2.id)
    /\ descScroll = 0
    /\ displayIssues[1].description = Some(LongWord)

\* text holds no separator character
NoSeparator(text) == \A i \in 1..Len(text) : text[i] # DESCRIPTION_PART_SEPARATOR

\* C19: decodeDescription(encodeDescription(meta, summary)) is exactly
\* {meta, summary} for every meta and every optional summary, absent, empty
\* or non-empty, that hold no separator character.
C19_RoundTrip ==
    (/\ call # None
     /\ call.fn = "decodeDescription"
     /\ NoSeparator(call.meta)
     /\ call.summary # None => NoSeparator(call.summary[1]))
        => call.result = [meta |-> call.meta, summary |-> call.summary]

\* the escape-stripped width of the label of row k
LabelWidth(k) == Len(stripAnsi(call.result[k].label))

\* C20: the rows shown together have one escape-stripped label width, the
\* largest visible label width over all in-memory tasks, also when the
\* filter hides some of them.
C20_LabelsAligned ==
    (call # None /\ call.fn = "getItems") =>
        \A k \in 1..Len(call.result) :
            /\ LabelWidth(k) = LabelWidth(1)
            /\ \A j \in 1..Len(displayIssues) :
                  LabelWidth(k) >= Len(stripAnsi(baseLabel(displayIssues[j])))
            /\ \E j \in 1..Len(displayIssues) :
                  LabelWidth(k) = Len(stripAnsi(baseLabel(displayIssues[j])))

\* the filter hides the first task, whose label is wider than that of the
\* second, and the only row shown is padded to the width of the hidden one
C20_Witness ==
    /\ call # None
    /\ call.fn = "getItems"
    /\ filterTerm = <<"b">>
    /\ Len(displayIssues) = 2
    /\ displayIssues[1].title = <<"a", "a", "a">>
    /\ displayIssues[2].title = <<"b">>
    /\ Len(call.result) = 1
    /\ call.result[1].value = displayIssues[2].id
    /\ call.result[1].label = baseLabel(displayIssues[2]) \o <<" ", " ">>

\* the text parts of a row were built
PartsBuilt == call # None /\ call.fn = "buildIssueListTextParts" /\ call.result # None

\* the priority text at the head of an identity text
PriorityText ==
    LET identity == call.result[1].identity
        rest == <<" ">> \o MUTED_TEXT \o stripIdPrefix(call.issue.id) \o ANSI_RESET
    IN SubSeq(identity, 1, Len(identity) - Len(rest))

\* C21: for a priority in 0..4 the priority text is the colour escape of the
\* priority, 'P', the digit and the reset escape, 2 visible characters; for
\* every other value, absent or outside 0..4, it is the literal 'P?' with no
\* escape.
C21_FormatPriority ==
    PartsBuilt =>
        LET p == call.issue.priority
        IN IF p # None /\ p[1] \in 0..4
           THEN /\ PriorityText = PRIORITY_COLORS[p[1] + 1] \o <<"P", String(p[1])>> \o ANSI_RESET
                /\ Len(stripAnsi(PriorityText)) = 2
           ELSE PriorityText = <<"P", "?">>

\* C22: the status symbols of the five defined statuses are pairwise
\* distinct and none is '?'; the symbol of every other status is '?'.
C22_FormatStatusSymbol ==
    /\ \A s, t \in TaskStatus :
          /\ formatIssueStatusSymbol(s) # <<"?">>
          /\ s # t => formatIssueStatusSymbol(s) # formatIssueStatusSymbol(t)
    /\ PartsBuilt =>
          (call.issue.status \notin TaskStatus =>
              call.result[1].meta = <<"?", " ">> \o formatIssueTypeCode(call.issue.issue_type))

\* a task was serialized
Serialized == call # None /\ call.fn = "serializeTask" /\ call.result # None

\* the positions of an element in a text
Positions(str, c) == {i \in 1..Len(str) : str[i] = c}

\* the only position of an element in a text
PositionOf(str, c) == CHOOSE i \in Positions(str, c) : TRUE

\* the claim's example and its reference string
ExampleTask ==
    [id |-> PROJ_42, title |-> FIX_LOGIN, description |-> None, status |-> OPEN,
     priority |-> Some(1), taskType |-> None]
ExampleReference ==
    <<"task(", "id=", "p", "r", "o", "j", "-", "4", "2", ", ",
      "title=\"", "F", "i", "x", " ", "l", "o", "g", "i", "n", "\"", ", ",
      "status=", "o", "p", "e", "n", ", ", "priority=", "1", ", ", "type=", "task", ")">>

\* C23: the reference string is task(id=, title="", status=, priority=,
\* type=) in this order, with 'unknown' for an absent priority and 'task'
\* for an absent type; description="..." is appended if and only if the
\* description is not blank after trimming, with every newline of it written
\* as backslash-n; the example task gives the example string.
C23_SerializeTask ==
    Serialized =>
        LET tk == call.task
            text == call.result[1]
            blank == tk.description = None \/ trim(tk.description[1]) = <<>>
        IN /\ text[1] = "task(" /\ text[Len(text)] = ")"
           /\ \A c \in {"id=", "title=\"", "status=", "priority=", "type="} :
                 Cardinality(Positions(text, c)) = 1
           /\ PositionOf(text, "id=") = 2
           /\ PositionOf(text, "id=") < PositionOf(text, "title=\"")
           /\ PositionOf(text, "title=\"") < PositionOf(text, "status=")
           /\ PositionOf(text, "status=") < PositionOf(text, "priority=")
           /\ PositionOf(text, "priority=") < PositionOf(text, "type=")
           /\ text[PositionOf(text, "priority=") + 1] =
                 (IF tk.priority = None THEN "unknown" ELSE String(tk.priority[1]))
           /\ (tk.taskType = None \/ tk.taskType[1] = <<>>) =>
                 text[PositionOf(text, "type=") + 1] = "task"
           /\ blank <=> Positions(text, "description=\"") = {}
           /\ ~blank =>
                 LET from == PositionOf(text, "description=\"")
                     written == SubSeq(text, from + 1, Len(text) - 2)
                 IN /\ PositionOf(text, "type=") < from
                    /\ Positions(written, "\n") = {}
                    /\ Cardinality(Positions(written, "\\")) =
                          Cardinality(Positions(trim(tk.description[1]), "\n"))
                    /\ \A i \in Positions(written, "\\") : written[i + 1] = "n"
           /\ tk = ExampleTask => text = ExampleReference

\* a description with a newline inside it was serialized
C23_Witness ==
    /\ Serialized
    /\ call.task.description = Some(<<"a", "\n", "a">>)
    /\ call.task.priority = None
    /\ call.task.taskType = Some(<<>>)
    /\ \E i \in 1..Len(call.result[1]) :
          SubSeq(call.result[1], i, i + 4) = <<"description=\"", "a", "\\", "n", "a">>

\* C24: the reference string of any task is a single line: it holds no
\* line-break character, whatever the id, title and description hold.
C24_SingleLine ==
    Serialized => \A i \in 1..Len(call.result[1]) : call.result[1][i] \notin {"\n", "\r"}

\* C25: a work or reference intent on a selected task ends the list session,
\* after which no input is handled and the list is not shown again, and calls
\* the sink of the intent exactly once with the selected task; with no
\* selected task it does nothing and the list stays open.
C25_HandoffEndsSession ==
    [][/\ (Handled("work") \/ Handled("reference")) =>
            IF getSelectedItem # None
            THEN /\ phase' = "closed"
                 /\ handoff' = Append(handoff, [kind |-> lastIntent', issue |-> SelectedIssue])
            ELSE /\ phase' = "list"
                 /\ UNCHANGED <<handoff, displayIssues, items, selectedIndex, filterTerm,
                                rememberedSelectedId, pending>>
       /\ handoff # <<>> =>
            /\ phase = "closed" /\ phase' = "closed"
            /\ UNCHANGED <<handoff, inputsLeft, lastIntent>>]_vars

\* the second task of the list was handed to the reference sink after the
\* selection moved to it
C25_Witness ==
    /\ phase = "closed"
    /\ lastIntent = "reference"
    /\ Len(handoff) = 1
    /\ handoff[1].kind = "reference"
    /\ handoff[1].issue.id = Issue2.id
    /\ Len(displayIssues) = 2

\* C26: when the edit form returns, the updated task is at the index of the
\* edited task; the length of the in-memory list, the order of the tasks and
\* every other task are unchanged.
C26_EditReplacesInPlace ==
    [][(Handled("edit") /\ getSelectedItem # None) =>
          LET idx == FindIssue(displayIssues, getSelectedItem[1])
          IN /\ Len(displayIssues') = Len(displayIssues)
             /\ displayIssues'[idx].id = displayIssues[idx].id
             /\ \A k \in 1..Len(displayIssues) : k # idx => displayIssues'[k] = displayIssues[k]]_vars

\* the second task of the list was edited and saved: it is still second, and
\* the first task is as it was
C26_Witness ==
    /\ phase = "list"
    /\ lastIntent = "edit"
    /\ Len(displayIssues) = 2
    /\ displayIssues[1] = Issue1
    /\ displayIssues[2].id = Issue2.id
    /\ displayIssues[2].title = EditedTitle

\* C27: after a create form that saved, the new task is first in the
\* in-memory list, the earlier tasks follow in their order and the new task
\* is the selected row of the list shown next, also when a filter term is
\* active; after a create form that never saved, the list and the selection
\* are unchanged.
C27_CreatedFirstAndSelected ==
    [][Handled("create") =>
          IF displayIssues' # displayIssues
          THEN /\ Len(displayIssues') = Len(displayIssues) + 1
               /\ Tail(displayIssues') = displayIssues
               /\ \A k \in 1..Len(displayIssues) : displayIssues'[1].id # displayIssues[k].id
               /\ getSelectedItem' = Some(displayIssues'[1].id)
          ELSE getSelectedItem' = getSelectedItem]_vars

\* C28: a save whose backend call fails leaves the last-saved task as it was
\* and the backend has accepted nothing of it, so that a retry diffs against
\* what the backend last accepted; the task handed back when the form returns
\* is the last successfully saved draft, or the task as loaded (none in a
\* create session) when no save succeeded.
C28_FailedSaveKeepsLastSaved ==
    [][/\ (SaveStep /\ saveResult' = "failed") => (LastSaved' = LastSaved /\ bd' = bd)
       /\ (mode # "none" /\ mode' = "none") =>
            IF savedDraft = None
            THEN LastSaved = (IF mode = "edit" THEN Some(toTask(bd[EditId])) ELSE None)
            ELSE SameAsTask(savedDraft[1], LastSaved[1])]_vars

\* a read of the adapter ended
AdapterRead == call # None /\ call.fn \in {"list", "show", "create"} /\ call.result # None

\* C30: for an empty JSON array show(id) fails with 'Task not found: <id>';
\* for an output that is not a JSON array it fails with a 'Failed to parse
\* bd output (show <id>)' error; list and show accept no output that is not
\* an array, create none that is not an object.
C30_ParseErrors ==
    AdapterRead =>
        LET fn == call.fn
            out == call.run.stdout
            result == call.result[1]
        IN /\ (fn = "show" /\ call.run.code = 0 /\ out = [kind |-> "array", items |-> <<>>]) =>
                 (result.threw /\ result.message = <<"Task not found: ", call.id>>)
           /\ (fn = "show" /\ call.run.code = 0 /\ out.kind # "array") =>
                 /\ result.threw
                 /\ SubSeq(result.message, 1, 3) =
                       <<"Failed to parse bd output (", <<"show ", call.id>>, "): ">>
           /\ (fn \in {"list", "show"} /\ out.kind # "array") => result.threw
           /\ (fn = "create" /\ out.kind # "object") => result.threw

\* show read an object where an array was expected and failed to parse it
C30_Witness ==
    /\ AdapterRead
    /\ call.fn = "show"
    /\ call.id = <<"x">>
    /\ call.run.code = 0
    /\ call.run.stdout.kind = "object"
    /\ call.result[1].threw
    /\ call.result[1].message =
          <<"Failed to parse bd output (", <<"show ", <<"x">>>>, "): ", "expected JSON array">>

\* browseTasks is in progress or over
Browse == call # None /\ call.fn = "browseTasks"

\* C29: when the list call fails as the task list is opened, no list screen
\* is shown, the loading indicator is cleared, exactly one error notification
\* carries the failure message, and the list call is not retried.
C29_ListFailureNotified ==
    (Browse /\ call.listFailed) =>
        /\ ~call.shown /\ phase = "none"
        /\ call.listCalls = 1
        /\ call.pc \in {"caught", "done"}
        /\ call.pc = "done" =>
              /\ call.status = None
              /\ notifications = <<[level |-> "error", message |-> adapterList(call.run).message]>>
        /\ call.pc = "caught" => notifications = <<>>

\* bd exited with an error and its message was notified
C29_Witness ==
    /\ Browse
    /\ call.pc = "done"
    /\ call.listFailed
    /\ call.run.code = 1
    /\ notifications = <<[level |-> "error", message |-> <<"b", "o", "o", "m">>]>>

\* the ids of the tasks of a list
IssueIds(issues) == {issues[k].id : k \in 1..Len(issues)}

\* C31: the in-memory list of a list session never loses a task: every id
\* present before a step is present after it, and the length of the list
\* changes only by +1, in the step of a create intent whose form saved.
C31_NoTaskLost ==
    [][/\ IssueIds(displayIssues) \subseteq IssueIds(displayIssues')
       /\ Len(displayIssues') # Len(displayIssues) =>
             /\ Len(displayIssues') = Len(displayIssues) + 1
             /\ Handled("create")
             /\ DOMAIN bd' # DOMAIN bd]_vars

\* a task was created and then a task was edited: the list has three tasks,
\* the two it started with among them
C31_Witness ==
    /\ phase = "list"
    /\ lastIntent = "edit"
    /\ Len(displayIssues) = 3
    /\ {Issue1.id, Issue2.id} \subseteq IssueIds(displayIssues)
    /\ displayIssues[2].title = EditedTitle

\* the intents that are no toggle, no edit and no create
QuietIntents == {"moveSelection", "scrollDescription", "searchStart", "searchAppend",
                 "searchBackspace", "searchApply", "searchCancel", "delegate", "work",
                 "reference", "cancel"}

\* C32: a backend update is issued only by a status, priority or type toggle
\* or by a form save: a move, scroll, search, delegate, work, reference or
\* cancel intent issues no backend call and changes no field of any in-memory
\* task; the tracker changes only when a toggle's update ends or in the step
\* of an edit or create intent whose form saved.
C32_OnlyTogglesAndSavesUpdate ==
    [][/\ (\E type \in QuietIntents : Handled(type)) =>
             /\ pending' = pending
             /\ updatesLeft' = updatesLeft
             /\ bd' = bd
             /\ displayIssues' = displayIssues
       /\ (pending' \ pending # {}) =>
             \/ Handled("toggleStatus")
             \/ Handled("setPriority")
             \/ Handled("toggleType")
       /\ (bd' # bd) =>
             \/ pending' # pending /\ pending' \subseteq pending
             \/ Handled("edit")
             \/ Handled("create")]_vars

\* a search for "a" was applied and the list rebuilt with the second task
\* only: no update is in flight and the tracker and the in-memory list hold
\* the tasks the session started with
C32_Witness ==
    /\ phase = "list"
    /\ lastIntent = "searchApply"
    /\ filterTerm = <<"a">>
    /\ items = <<Issue2.id>>
    /\ pending = {}
    /\ updatesLeft = MaxUpdates
    /\ displayIssues = <<Issue1, Issue2>>
    /\ bd[Issue1.id] = Issue1 /\ bd[Issue2.id] = Issue2

\* the intents a key resolves to while the search is entered
SearchIntents == {"searchApply", "searchCancel", "searchBackspace", "searchAppend", "delegate"}

\* the list, its rows and the filter are as they were
ListAsBefore == UNCHANGED <<phase, displayIssues, filterTerm, items, selectedIndex, pending, bd>>

\* C33: the search entry is a sub-mode: searchStart enters it with an empty
\* buffer; searchAppend and searchBackspace change only the buffer (one
\* character more, or the last one less); searchApply sets the filter term to
\* the trimmed buffer and leaves the sub-mode; searchCancel leaves it, empties
\* the buffer and keeps the filter term; and while the search is entered no
\* input toggles a task, opens a form or ends the session.
C33_SearchSubMode ==
    [][/\ Handled("searchStart") =>
             /\ ~searching /\ searching' /\ searchBuffer' = <<>>
             /\ ListAsBefore
       /\ Handled("searchAppend") =>
             /\ searching /\ searching'
             /\ Len(searchBuffer') = Len(searchBuffer) + 1
             /\ SubSeq(searchBuffer', 1, Len(searchBuffer)) = searchBuffer
             /\ ListAsBefore
       /\ Handled("searchBackspace") =>
             /\ searching /\ searching'
             /\ searchBuffer' = SubSeq(searchBuffer, 1, Len(searchBuffer) - 1)
             /\ ListAsBefore
       /\ Handled("searchApply") =>
             /\ searching /\ ~searching'
             /\ filterTerm' = trim(searchBuffer)
       /\ Handled("searchCancel") =>
             /\ searching /\ ~searching'
             /\ searchBuffer' = <<>>
             /\ ListAsBefore
       /\ (searching /\ inputsLeft' # inputsLeft) =>
             /\ lastIntent' \in SearchIntents
             /\ UNCHANGED <<phase, displayIssues, pending, updatesLeft, bd, handoff>>]_vars

\* a search was started over a list filtered by "a" and cancelled: the
\* filter term and the one row are as before
C33_Witness ==
    /\ phase = "list"
    /\ lastIntent = "searchCancel"
    /\ ~searching
    /\ searchBuffer = <<>>
    /\ filterTerm = <<"a">>
    /\ items = <<Issue2.id>>

\* C34: the mode flags gate availability.  With allowPriority false no step
\* of the list changes the priority of a task or issues a priority update;
\* with allowSearch false the list never enters the search and the filter
\* term changes only by being cleared.
C34_FlagsGate ==
    [][/\ ~config.allowPriority =>
             /\ \A k \in 1..Len(displayIssues) :
                   LET j == FindIssue(displayIssues', displayIssues[k].id)
                   IN j # 0 /\ displayIssues'[j].priority = displayIssues[k].priority
             /\ \A u \in pending' : Flag(u.args, "--priority") = None
             /\ \A id \in DOMAIN bd : bd'[id].priority = bd[id].priority
       /\ ~config.allowSearch =>
             /\ ~searching /\ ~searching'
             /\ lastIntent' \notin {"searchStart", "searchApply", "searchAppend"}
             /\ filterTerm' \in {filterTerm, <<>>}]_vars

\* with both flags off, three keys were delegated to the select list (the
\* digits and the search key among the keys pressed): the tasks, the filter
\* term "a" and its one row are as they were
C34_Witness ==
    /\ ~config.allowPriority /\ ~config.allowSearch
    /\ phase = "list"
    /\ lastIntent = "delegate"
    /\ inputsLeft = 0
    /\ ~searching
    /\ filterTerm = <<"a">>
    /\ displayIssues = <<Issue1, Issue2>>
    /\ pending = {} /\ updatesLeft = MaxUpdates

\* truncateDescription has returned
Truncated == call # None /\ call.fn = "truncateDescription" /\ call.result # None

\* the text with every "\r" that stands before a "\n" taken out
RECURSIVE WithoutCarriageReturns(_)
WithoutCarriageReturns(str) ==
    IF str = <<>> THEN <<>>
    ELSE IF Len(str) >= 2 /\ str[1] = "\r" /\ str[2] = "\n"
         THEN WithoutCarriageReturns(Tail(str))
         ELSE <<Head(str)>> \o WithoutCarriageReturns(Tail(str))

\* the number of raw lines of a text: one more than its line feeds
RawLineCount(str) == 1 + Cardinality({i \in 1..Len(str) : str[i] = "\n"})

\* C35: truncateDescription(desc, maxLines) returns the one entry
\* "(no description)" when desc is absent or blank; otherwise it returns the
\* first min(n, maxLines) of the n raw lines in order (the lines, joined by
\* line feeds, give the text, or the start of the text that ends before a
\* line break when lines were cut) and then the one entry "..." if and only
\* if n > maxLines, so at most maxLines + 1 entries.
C35_TruncateDescription ==
    Truncated =>
        LET result == call.result[1]
            maxLines == call.maxLines
        IN IF call.desc = None \/ \A i \in 1..Len(call.desc[1]) : call.desc[1][i] \in Whitespace
           THEN result = <<NoDescription>>
           ELSE LET text == WithoutCarriageReturns(call.desc[1])
                    n == RawLineCount(call.desc[1])
                    kept == IF n < maxLines THEN n ELSE maxLines
                    lines == SubSeq(result, 1, kept)
                    joined == Join(lines, <<"\n">>)
                IN /\ Len(result) = kept + (IF n > maxLines THEN 1 ELSE 0)
                   /\ Len(result) <= maxLines + 1
                   /\ n > maxLines => result[Len(result)] = <<".", ".", ".">>
                   /\ \A k \in 1..kept : \A i \in 1..Len(lines[k]) : lines[k][i] # "\n"
                   /\ IF n > maxLines
                      THEN kept > 0 => /\ SubSeq(text, 1, Len(joined)) = joined
                                       /\ text[Len(joined) + 1] = "\n"
                      ELSE joined = text

\* a description of three lines, the first ended by "\r\n", cut to two
C35_Witness ==
    /\ Truncated
    /\ call.desc = Some(<<"a", "\r", "\n", "\n">>)
    /\ call.maxLines = 2
    /\ call.result[1] = << <<"a">>, <<>>, <<".", ".", ".">> >>

\* C36: in one create-form session the tracker ends up with at most one new
\* task, whatever the save attempts and whichever backend calls fail, a
\* failure of the status update that follows the create included.
C36_AtMostOneCreated ==
    task = NewTask => Cardinality(DOMAIN bd) <= 1

\* C37: an edit form that is opened for a listed task and left with no
\* successful save leaves the title, status, priority and type of that task
\* in the in-memory list as they were just before the form was opened, also
\* while a toggle update for the task is in flight and the task is read from
\* the tracker because its list record has no description.
C37_UnsavedEditKeepsTask ==
    [][(Handled("edit") /\ getSelectedItem # None /\ bd' = bd) =>
          LET idx == SelectedIssueIndex
          IN /\ displayIssues'[idx].title = displayIssues[idx].title
             /\ displayIssues'[idx].status = displayIssues[idx].status
             /\ displayIssues'[idx].priority = displayIssues[idx].priority
             /\ displayIssues'[idx].issue_type = displayIssues[idx].issue_type]_vars

\* onSave has returned
Patched == call # None /\ call.fn = "onSave" /\ call.result # None

\* C38: the patch built by buildTaskUpdate contains a field if and only if
\* the normalized draft (title trimmed) differs from the previous task in
\* that field (an absent description counting as empty), and after a
\* successful save the locally stored task equals the tracker's task in
\* title, description, status, priority and type (an absent description
\* counting as empty, an absent type as "task"); also when the draft has no
\* priority and the previous task has one.
C38_PatchIsTheDifference ==
    Patched =>
        LET previous == call.previous
            next == call.next
            update == call.result[1].update
            local == call.result[1].task
            remote == toTask(bd[previous.id])
        IN /\ (update.title # None) <=> (trim(next.title) # trim(previous.title))
           /\ (update.description # None) <=> (next.description # OrElse(previous.description, <<>>))
           /\ (update.status # None) <=> (next.status # previous.status)
           /\ (update.priority # None) <=> (next.priority # previous.priority)
           /\ (update.taskType # None) <=> (next.taskType # previous.taskType)
           /\ call.result[1].saved =>
                 /\ trim(local.title) = trim(remote.title)
                 /\ OrElse(local.description, <<>>) = OrElse(remote.description, <<>>)
                 /\ local.status = remote.status
                 /\ local.priority = remote.priority
                 /\ OrElse(local.taskType, "task") = OrElse(remote.taskType, "task")

\* update has returned or thrown
UpdateRan == call # None /\ call.fn = "update" /\ call.result # None

\* the flags of bd update in their order, and the field each one carries
FlagOrder == <<"--title", "--description", "--status", "--priority", "--type">>
FieldOrder == <<"title", "description", "status", "priority", "taskType">>

\* C39: the adapter's update(id, patch) runs no process, and changes
\* nothing, when the patch sets none of title, description, status, priority
\* and taskType; otherwise it runs exactly one `bd update <id>` whose flags
\* are those of the fields that are set, each once, in the order title,
\* description, status, priority, type.
C39_OneUpdateInFlagOrder ==
    UpdateRan =>
        LET calls == call.result[1].calls
        IN IF call.update = EmptyUpdate
           THEN calls = <<>> /\ ~call.result[1].threw /\ bd = (EditId :> UpdatedRecord)
           ELSE /\ Len(calls) = 1
                /\ calls[1].op = "update"
                /\ calls[1].id = call.id
                /\ LET args == calls[1].args
                   IN /\ {args[k][1] : k \in 1..Len(args)} =
                            {FlagOrder[i] : i \in {j \in 1..5 : call.update[FieldOrder[j]] # None}}
                      /\ \A k \in 1..(Len(args) - 1) :
                            IndexOf(FlagOrder, args[k][1]) < IndexOf(FlagOrder, args[k + 1][1])

\* a patch that sets the description and an empty type ran one bd update
\* with --description and --type
C39_Witness ==
    /\ UpdateRan
    /\ call.update = [EmptyUpdate EXCEPT !.description = Some(<<"d">>), !.taskType = Some("")]
    /\ call.result[1].calls =
          << [op |-> "update", id |-> EditId,
              args |-> << <<"--description", <<"d">> >>, <<"--type", "task">> >>] >>
    /\ bd[EditId].issue_type = Some("task")

\* sortActiveTasks has returned
Sorted == call # None /\ call.fn = "sortActiveTasks" /\ call.result # None

\* how often a value occurs in a sequence
Count(seq, x) == Cardinality({k \in 1..Len(seq) : seq[k] = x})

\* the first task does not come after the second in the listed order: by
\* status rank, then by priority with no priority last, then by id
InListOrder(a, b) ==
    LET ra == IF a.status = IN_PROGRESS THEN 0 ELSE IF a.status = OPEN THEN 1 ELSE 2
        rb == IF b.status = IN_PROGRESS THEN 0 ELSE IF b.status = OPEN THEN 1 ELSE 2
    IN \/ ra < rb
       \/ /\ ra = rb
          /\ \/ a.priority # None /\ b.priority = None
             \/ a.priority # None /\ b.priority # None /\ a.priority[1] < b.priority[1]
             \/ /\ a.priority = b.priority
                /\ localeCompare(a.id, b.id) <= 0

\* C40: the list of active tasks is a permutation of the tracker's records,
\* sorted by status rank (in_progress, open, then every other status), then
\* by ascending priority with the tasks without a priority last, then by id;
\* the array given is not modified.
C40_SortActiveTasks ==
    Sorted =>
        LET result == call.result[1].result
        IN /\ Len(result) = Len(call.tasks)
           /\ \A k \in 1..Len(call.tasks) : Count(result, call.tasks[k]) = Count(call.tasks, call.tasks[k])
           /\ \A k \in 1..(Len(result) - 1) : InListOrder(result[k], result[k + 1])
           /\ call.result[1].tasks = call.tasks

\* three tasks given in the reverse of the listed order
C40_Witness ==
    /\ Sorted
    /\ call.tasks = <<[id |-> <<"a">>, status |-> CLOSED, priority |-> Some(0)],
                      [id |-> <<"b">>, status |-> OPEN, priority |-> None],
                      [id |-> <<"a">>, status |-> OPEN, priority |-> Some(3)]>>
    /\ call.result[1].result = <<call.tasks[3], call.tasks[2], call.tasks[1]>>

==============================================================================
